---- MODULE Spec2Model ----
(***************************************************************************)
(* A model of the whisper (WSP) core: the Double Ratchet session           *)
(* (src/crypto/ratchet.rs), the relay forwarding engine                    *)
(* (src/relay/mod.rs) and the client session manager / connection          *)
(* supervisor (src/client/mod.rs).                                         *)
(*                                                                         *)
(* Cryptography is symbolic.  A key is a sequence of naturals that records *)
(* how it was derived, so two keys are equal exactly when they were        *)
(* derived the same way from the same inputs (hashes are collision free,   *)
(* X25519 is commutative and nothing else).  An AEAD ciphertext opens      *)
(* under the key that sealed it and under no other key.                    *)
(***************************************************************************)
EXTENDS Naturals, Integers, Sequences, FiniteSets, TLC

VARIABLES
    \* ---- ratchet pair (SpecRatchet) ----
    rs,        \* side -> RatchetSession
    wire,      \* side -> frames in flight towards that side, in sending order
    sentLog,   \* side -> plaintexts that side gave to encrypt, in order
    rcvLog,    \* side -> results of that side's decrypt calls, in order
    nextKey,   \* the next keypair the OS random generator will produce
    boot,      \* whether the initial DH publics were exchanged via set_remote_dh
    \* ---- relay (SpecRelay, SpecClient) ----
    peers,     \* relay PeerMap: session-id -> connection whose tx is registered
    rooms,     \* relay RoomMap: group-id -> set of session-ids
    conn,      \* connection -> state of its handle_connection task
    outq,      \* connection -> frames enqueued on its outbound channel
    ev,        \* the last relay/client step (what was handled, by whom)
    \* ---- client (SpecClient) ----
    cl         \* client -> state of its supervisor and session manager

ratchetVars == <<rs, wire, sentLog, rcvLog, nextKey, boot>>
relayVars   == <<peers, rooms, conn, outq>>
vars        == <<rs, wire, sentLog, rcvLog, nextKey, boot, peers, rooms, conn, outq, ev, cl>>

\* ---------------------------------------------------------------------------
\* Bounds of the model
\* ---------------------------------------------------------------------------
MaxMsgs == 5        \* encrypt calls in one run of the ratchet pair
NumPayloads == 2    \* distinct plaintexts

\* ---------------------------------------------------------------------------
\* Option<T>
\* ---------------------------------------------------------------------------
None == <<>>
Some(x) == <<x>>
IsSome(o) == o # <<>>
Unwrap(o) == o[1]

\* ---------------------------------------------------------------------------
\* Symbolic cryptography
\* ---------------------------------------------------------------------------
\* HKDF / BLAKE3 domain-separation labels, one natural per label string
LblRoot == 1        \* KDF_RK_INFO  "wsp-ratchet-root"
LblChainA == 2      \* "wsp-chain-alice"
LblChainB == 3      \* "wsp-chain-bob"
LblVoiceBase == 4   \* "wsp-voice-base"
LblRootStep == 5    \* "wsp-root"
LblChainStep == 6   \* "wsp-chain"
LblChainAdv == 7    \* "chain"
LblMsgKey == 8      \* "message"
LblVoice == 9       \* KDF_VOICE_INFO "wsp-voice-key"
LblScreen == 10     \* KDF_SCREEN_INFO "wsp-screen-key"

MAX_SKIP == 100

\* Hkdf::<Sha256>::new(None, ikm).expand(label)
HkdfExpand(ikm, label) == <<label>> \o ikm

\* StaticSecret::diffie_hellman: keypair k has secret k and public k; the
\* output depends on the unordered pair only
DiffieHellman(secret, public) ==
    IF secret <= public THEN <<secret, public>> ELSE <<public, secret>>

kdf_root(root_key, dh_output) ==
    [root  |-> root_key \o <<LblRootStep>> \o dh_output,
     chain |-> root_key \o <<LblChainStep>> \o dh_output]

kdf_chain(chain_key) ==
    [chain |-> chain_key \o <<LblChainAdv>>,
     mk    |-> chain_key \o <<LblMsgKey>>]

\* ChaCha20-Poly1305 under a one-time key; the nonce travels with the frame
encrypt_with_key(key, plaintext) == [key |-> key, pt |-> plaintext]

decrypt_with_key(key, nonce_ok, ciphertext) ==
    IF nonce_ok /\ ciphertext.key = key
    THEN [ok |-> TRUE, pt |-> ciphertext.pt]
    ELSE [ok |-> FALSE, pt |-> 0]

\* ---------------------------------------------------------------------------
\* RatchetSession
\* ---------------------------------------------------------------------------
RatchetInit(shared_secret, is_alice, keypair) ==
    LET chain_a == HkdfExpand(shared_secret, LblChainA)
        chain_b == HkdfExpand(shared_secret, LblChainB)
    IN  [dh_self_secret |-> keypair,
         dh_self_public |-> keypair,
         dh_remote      |-> None,
         root_key       |-> HkdfExpand(shared_secret, LblRoot),
         chain_key_send |-> Some(IF is_alice THEN chain_a ELSE chain_b),
         send_msg_num   |-> 0,
         chain_key_recv |-> Some(IF is_alice THEN chain_b ELSE chain_a),
         recv_msg_num   |-> 0,
         prev_chain_len |-> 0,
         skipped_keys   |-> {},
         is_alice       |-> is_alice,
         initial_ratchet_done |-> FALSE,
         voice_base_key |-> HkdfExpand(shared_secret, LblVoiceBase),
         voice_key      |-> None,
         screen_key     |-> None]

public_key(s) == s.dh_self_public

set_remote_dh(s, remote_dh) ==
    IF s.dh_remote = None THEN [s EXCEPT !.dh_remote = Some(remote_dh)] ELSE s

\* A plausible slip: the DH is computed with the old secret while the header
\* already carries the new public.
ratchet_send_OldSecret(s, fresh) ==
    LET k == kdf_root(s.root_key, DiffieHellman(s.dh_self_secret, Unwrap(s.dh_remote)))
    IN  [s EXCEPT !.prev_chain_len = s.send_msg_num,
                  !.send_msg_num = 0,
                  !.root_key = k.root,
                  !.chain_key_send = Some(k.chain),
                  !.dh_self_secret = fresh,
                  !.dh_self_public = fresh]

\* Callers guarantee dh_remote is Some (encrypt tests it, ratchet_recv sets it)
ratchet_send(s, fresh) ==
    LET k == kdf_root(s.root_key, DiffieHellman(fresh, Unwrap(s.dh_remote)))
    IN  [s EXCEPT !.prev_chain_len = s.send_msg_num,
                  !.send_msg_num = 0,
                  !.root_key = k.root,
                  !.chain_key_send = Some(k.chain),
                  !.dh_self_secret = fresh,
                  !.dh_self_public = fresh]

\* A plausible slip: the receiving step does not go on to the sending step,
\* so the session keeps its DH key pair
ratchet_recv_NoSendStep(s, new_remote_pub, fresh) ==
    LET k == kdf_root(s.root_key, DiffieHellman(s.dh_self_secret, new_remote_pub))
    IN  [s EXCEPT !.dh_remote = Some(new_remote_pub),
                  !.root_key = k.root,
                  !.chain_key_recv = Some(k.chain),
                  !.recv_msg_num = 0]

ratchet_recv(s, new_remote_pub, fresh) ==
    LET k  == kdf_root(s.root_key, DiffieHellman(s.dh_self_secret, new_remote_pub))
        s1 == [s EXCEPT !.dh_remote = Some(new_remote_pub),
                        !.root_key = k.root,
                        !.chain_key_recv = Some(k.chain),
                        !.recv_msg_num = 0]
    IN  ratchet_send(s1, fresh)

\* encrypt: [sess, header, ct]; `fresh` is the keypair the generator yields
\* if the initial send ratchet runs
Encrypt(s, plaintext, fresh) ==
    LET s1 == IF s.is_alice /\ IsSome(s.dh_remote) /\ ~s.initial_ratchet_done
              THEN [ratchet_send(s, fresh) EXCEPT !.initial_ratchet_done = TRUE]
              ELSE s
        k  == kdf_chain(Unwrap(s1.chain_key_send))
        header == [dh_public |-> s1.dh_self_public,
                   prev_chain_len |-> s1.prev_chain_len,
                   msg_num |-> s1.send_msg_num]
    IN  [sess   |-> [s1 EXCEPT !.chain_key_send = Some(k.chain),
                               !.send_msg_num = s1.send_msg_num + 1],
         header |-> header,
         ct     |-> encrypt_with_key(k.mk, plaintext)]

\* n turns of the chain: kdf_chain(ck).chain taken n times
ChainAfter(ck, n) == ck \o [i \in 1..n |-> LblChainAdv]

\* A plausible slip: the chain is advanced past the skipped messages but
\* their keys are not stored
SkipChain_NoKeys(ck, dh_pub, from, until) ==
    IF from >= until THEN [chain |-> ck, keys |-> {}]
    ELSE [chain |-> ChainAfter(ck, until - from), keys |-> {}]

\* A plausible slip: the loop stores the keys from the second skipped message on
SkipChain_FromSecond(ck, dh_pub, from, until) ==
    IF from >= until THEN [chain |-> ck, keys |-> {}]
    ELSE [chain |-> ChainAfter(ck, until - from),
          keys  |-> {[dh_public |-> dh_pub, msg_num |-> n,
                      mk |-> kdf_chain(ChainAfter(ck, n - from)).mk] : n \in (from + 1)..(until - 1)}]

\* The loop of skip_message_keys: the keys the chain yields for message
\* numbers from..until-1, stored under (dh_pub, n); ck is the chain key at `from`
SkipChain(ck, dh_pub, from, until) ==
    IF from >= until THEN [chain |-> ck, keys |-> {}]
    ELSE [chain |-> ChainAfter(ck, until - from),
          keys  |-> {[dh_public |-> dh_pub, msg_num |-> n,
                      mk |-> kdf_chain(ChainAfter(ck, n - from)).mk] : n \in from..(until - 1)}]

\* HashMap::insert of every new entry: an entry with the same key is replaced
InsertAll(map, new) ==
    {e \in map : ~\E n \in new : n.dh_public = e.dh_public /\ n.msg_num = e.msg_num} \cup new

\* The maps left by removing k arbitrary entries
RECURSIVE RemoveArbitrary(_, _)
RemoveArbitrary(map, k) ==
    IF k = 0 THEN {map}
    ELSE UNION {RemoveArbitrary(map \ {e}, k - 1) : e \in map}

\* A plausible slip: the eviction loop is missing
EvictCount_None(map) == 0

\* `while self.skipped_keys.len() > MAX_SKIP`: how many entries the loop removes
EvictCount(map) == IF Cardinality(map) > MAX_SKIP THEN Cardinality(map) - MAX_SKIP ELSE 0

\* skip_message_keys: the set of outcomes [ok, sess, evicted]; more than one
\* only when the eviction loop removes arbitrary HashMap entries; evicted is
\* the number of entries that loop removed
skip_message_keys(s, until) ==
    IF until < s.recv_msg_num THEN {[ok |-> TRUE, sess |-> s, evicted |-> 0]}
    ELSE IF until - s.recv_msg_num > MAX_SKIP THEN {[ok |-> FALSE, sess |-> s, evicted |-> 0]}
    ELSE IF s.chain_key_recv = None \/ s.dh_remote = None
         THEN {[ok |-> TRUE, sess |-> s, evicted |-> 0]}
    ELSE LET sk   == SkipChain(Unwrap(s.chain_key_recv), Unwrap(s.dh_remote),
                               s.recv_msg_num, until)
             all  == InsertAll(s.skipped_keys, sk.keys)
             over == EvictCount(all)
         IN  {[ok |-> TRUE,
               sess |-> [s EXCEPT !.skipped_keys = m,
                                  !.chain_key_recv = Some(sk.chain),
                                  !.recv_msg_num = until],
               evicted |-> over]
              : m \in RemoveArbitrary(all, over)}

\* Step 4 of decrypt: advance the receiving chain by one and open the frame
DecryptOnChain(s, nonce_ok, ciphertext) ==
    LET k == kdf_chain(Unwrap(s.chain_key_recv))
    IN  [sess |-> [s EXCEPT !.chain_key_recv = Some(k.chain),
                            !.recv_msg_num = s.recv_msg_num + 1],
         res  |-> decrypt_with_key(k.mk, nonce_ok, ciphertext)]

Failed(s) == [sess |-> s, res |-> [ok |-> FALSE, pt |-> 0]]

\* A plausible slip: a session without a remote DH public treats the first
\* header as a new DH public
NeedDhRatchet_WhenUnknown(s, header) ==
    s.dh_remote = None \/ Unwrap(s.dh_remote) # header.dh_public

\* `Some(remote) if remote != header.dh_public => true`, otherwise false
NeedDhRatchet(s, header) ==
    IsSome(s.dh_remote) /\ Unwrap(s.dh_remote) # header.dh_public

\* decrypt: the set of outcomes [sess, res, used, evicted]; sess is the
\* session state the call leaves behind, also when it returns an error; used
\* holds the (DH public, message number) of the message key the call took
\* from the map or from the chain, evicted counts the keys it discarded
Decrypt(s, header, nonce_ok, ciphertext, fresh) ==
    LET hit == {e \in s.skipped_keys :
                    e.dh_public = header.dh_public /\ e.msg_num = header.msg_num}
    IN
    IF hit # {}
    THEN {[sess |-> [s EXCEPT !.skipped_keys = s.skipped_keys \ hit],
           res  |-> decrypt_with_key((CHOOSE e \in hit : TRUE).mk, nonce_ok, ciphertext),
           used |-> {[dh_public |-> header.dh_public, msg_num |-> header.msg_num]},
           evicted |-> 0]}
    ELSE
    LET need_dh_ratchet == NeedDhRatchet(s, header)
        s1 == IF s.dh_remote = None
              THEN [s EXCEPT !.dh_remote = Some(header.dh_public)] ELSE s
        \* after the optional DH ratchet step: outcomes [ok, sess]
        afterDh == IF need_dh_ratchet
                   THEN {IF o.ok
                         THEN [ok |-> TRUE, sess |-> ratchet_recv(o.sess, header.dh_public, fresh),
                               evicted |-> o.evicted]
                         ELSE o
                         : o \in skip_message_keys(s1, header.prev_chain_len)}
                   ELSE {[ok |-> TRUE, sess |-> s1, evicted |-> 0]}
    IN  UNION {IF a.ok
               THEN {IF o.ok
                     THEN DecryptOnChain(o.sess, nonce_ok, ciphertext)
                          @@ [used |-> {[dh_public |-> Unwrap(o.sess.dh_remote),
                                         msg_num |-> o.sess.recv_msg_num]},
                              evicted |-> a.evicted + o.evicted]
                     ELSE Failed(o.sess) @@ [used |-> {}, evicted |-> a.evicted]
                     : o \in skip_message_keys(a.sess, header.msg_num)}
               ELSE {Failed(a.sess) @@ [used |-> {}, evicted |-> 0]}
               : a \in afterDh}

\* ---------------------------------------------------------------------------
\* The ratchet pair: two sessions from one shared secret, opposite roles,
\* joined by one FIFO link per direction
\* ---------------------------------------------------------------------------
Sides == {"alice", "bob"}
Other(side) == IF side = "alice" THEN "bob" ELSE "alice"
SharedSecret == <<42>>
FirstKey(side) == IF side = "alice" THEN 1 ELSE 2
Payloads == 1..NumPayloads

RatchetIdle ==
    /\ rs = [s \in Sides |-> 0]
    /\ wire = [s \in Sides |-> <<>>]
    /\ sentLog = [s \in Sides |-> <<>>]
    /\ rcvLog = [s \in Sides |-> <<>>]
    /\ nextKey = 0
    /\ boot = "idle"

RelayIdle ==
    /\ peers = <<>>
    /\ rooms = <<>>
    /\ conn = <<>>
    /\ outq = <<>>
    /\ ev = <<>>

ClientIdle == cl = <<>>

InitRatchet ==
    /\ boot \in {"exchanged", "none"}
    /\ rs = [s \in Sides |->
                LET me  == RatchetInit(SharedSecret, s = "alice", FirstKey(s))
                IN  IF boot = "exchanged" THEN set_remote_dh(me, FirstKey(Other(s))) ELSE me]
    /\ wire = [s \in Sides |-> <<>>]
    /\ sentLog = [s \in Sides |-> <<>>]
    /\ rcvLog = [s \in Sides |-> <<>>]
    /\ nextKey = 3
    /\ RelayIdle
    /\ ClientIdle

TotalSent == Len(sentLog["alice"]) + Len(sentLog["bob"])

\* side encrypts pt and hands the frame to the link
RSend(side, pt) ==
    /\ TotalSent < MaxMsgs
    /\ LET e == Encrypt(rs[side], pt, nextKey)
       IN  /\ rs' = [rs EXCEPT ![side] = e.sess]
           /\ wire' = [wire EXCEPT ![Other(side)] =
                        Append(@, [header |-> e.header, nonce_ok |-> TRUE, ct |-> e.ct])]
           /\ nextKey' = IF e.sess.dh_self_public # rs[side].dh_self_public
                         THEN nextKey + 1 ELSE nextKey
    /\ sentLog' = [sentLog EXCEPT ![side] = Append(@, pt)]
    /\ UNCHANGED <<rcvLog, boot, peers, rooms, conn, outq, ev, cl>>

\* the oldest frame in flight towards side arrives and is decrypted
RDeliver(side) ==
    /\ wire[side] # <<>>
    /\ LET f == Head(wire[side])
       IN  \E d \in Decrypt(rs[side], f.header, f.nonce_ok, f.ct, nextKey) :
              /\ rs' = [rs EXCEPT ![side] = d.sess]
              /\ rcvLog' = [rcvLog EXCEPT ![side] = Append(@, d.res)]
              /\ nextKey' = IF d.sess.dh_self_public # rs[side].dh_self_public
                            THEN nextKey + 1 ELSE nextKey
    /\ wire' = [wire EXCEPT ![side] = Tail(@)]
    /\ UNCHANGED <<sentLog, boot, peers, rooms, conn, outq, ev, cl>>

NextRatchet ==
    \/ \E side \in Sides, pt \in Payloads : RSend(side, pt)
    \/ \E side \in Sides : RDeliver(side)

SpecRatchet == InitRatchet /\ [][NextRatchet]_vars

Spec == SpecRatchet

\* ---------------------------------------------------------------------------
\* C1: with the initial DH publics exchanged and every frame delivered once
\* and in sending order, every decrypt succeeds and returns the plaintext of
\* the matching encrypt: what a side has received is a prefix of what its
\* peer has sent.
\* ---------------------------------------------------------------------------
C1_RoundTripInOrder ==
    boot = "exchanged" =>
        \A side \in Sides :
            /\ Len(rcvLog[side]) <= Len(sentLog[Other(side)])
            /\ \A i \in 1..Len(rcvLog[side]) :
                  rcvLog[side][i] = [ok |-> TRUE, pt |-> sentLog[Other(side)][i]]

\* both sides have received after DH ratchet steps on both sides, with a
\* frame of bob's initial chain delivered after alice had already ratcheted
C1_Witness ==
    /\ boot = "exchanged"
    /\ Len(rcvLog["alice"]) >= 2
    /\ Len(rcvLog["bob"]) >= 2
    /\ rs["bob"].dh_self_public # FirstKey("bob")
    /\ rs["alice"].dh_self_public > 3

\* ---------------------------------------------------------------------------
\* Relay forwarding engine (src/relay/mod.rs)
\* ---------------------------------------------------------------------------
NumConns == 2        \* connections the relay accepts in one run
MaxQueue == 1        \* frames waiting in one outbound channel

Conns == 1..NumConns
LongSids == {"s1", "s2"}     \* session-ids as generate_session_id mints them
ShortSids == {"x"}           \* a session-id string of fewer than 12 bytes
SIDs == LongSids \cup ShortSids
GIDs == {"g1"}
SidLen(sid) == IF sid \in ShortSids THEN 1 ELSE 32

\* A wire frame (protocol::Message).  One record shape for every variant:
\*   Connect{session_id}            from = session_id
\*   Discover{target_session}       target = target_session
\*   KeyExchange{from, public_key}  body.public_key
\*   Encrypted{from, target, ..}    target = "" is the legacy broadcast
\*   GroupJoin/GroupLeave{session_id, group_id}   from = session_id
\*   GroupEncrypted{from, group_id, ..}
\*   AudioFrame{from, ..}, Typing{from, target, ..}, ReadReceipt{from, target, ..}
\*   Ack
NoHeader == [dh_public |-> 0, prev_chain_len |-> 0, msg_num |-> 0]
NoBody == [public_key |-> 0, header |-> NoHeader, nonce_ok |-> TRUE,
           ct |-> [key |-> <<>>, pt |-> 0]]
Frame(kind, from, target, group_id) ==
    [kind |-> kind, from |-> from, target |-> target, group_id |-> group_id, body |-> NoBody]
AckFrame == Frame("Ack", "", "", "")
NoFrame == Frame("none", "", "", "")

\* the frames a client of the relay may put on a connection
RelayFrames ==
    {Frame("Connect", s, "", "") : s \in SIDs}
    \cup {Frame("Discover", "", t, "") : t \in LongSids}
    \cup {Frame("KeyExchange", "s1", "", ""), Frame("AudioFrame", "s1", "", "")}
    \cup {Frame("Encrypted", "s1", t, "") : t \in LongSids \cup {""}}
    \cup {Frame(k, s, "", g) : k \in {"GroupJoin", "GroupLeave", "GroupEncrypted"},
                               s \in LongSids, g \in GIDs}
    \cup {Frame("Typing", "s1", "s2", ""), Frame("ReadReceipt", "s1", "s2", ""), AckFrame}

NoSends == [d \in Conns |-> 0]

\* ev remembers the last step where a property needs to name it: what was done,
\* by which connection or client, on which frame, touching which rooms
Event(op, c, frame, rms) == [op |-> op, c |-> c, frame |-> frame, rooms |-> rms]
NoEvent == Event("none", 0, NoFrame, {})

\* ---- HashMap helpers: a map is a total function to Option ----
contains_key(map, k) == IsSome(map[k])
\* A plausible slip: entry().or_insert, which keeps an existing entry
insert_IfAbsent(map, k, v) == IF contains_key(map, k) THEN map ELSE [map EXCEPT ![k] = Some(v)]

insert(map, k, v) == [map EXCEPT ![k] = Some(v)]
remove(map, k) == [map EXCEPT ![k] = None]

\* RelayServer::new
InitRelayState ==
    /\ peers = [s \in SIDs |-> None]
    /\ rooms = [g \in GIDs |-> None]
    /\ conn = [c \in Conns |-> [st |-> "free", session_id |-> None, egress |-> "ended"]]
    /\ outq = [c \in Conns |-> <<>>]
    /\ ev = NoEvent

\* peer_tx.send(data) for every session-id in `to`: sends[d] is the number of
\* sends made on connection d's channel
SendsTo(to) == [d \in Conns |-> Cardinality({s \in to : peers[s] = Some(d)})]

RECURSIVE Copies(_, _)
Copies(f, n) == IF n = 0 THEN <<>> ELSE <<f>> \o Copies(f, n - 1)

\* The channels after the sends: a send on a channel whose receiver is gone
\* (the egress task has ended) fails and enqueues nothing
Enqueue(sends, f) ==
    [d \in Conns |-> IF conn[d].egress = "running"
                     THEN outq[d] \o Copies(f, sends[d]) ELSE outq[d]]

HasRoom(sends) == \A d \in Conns : Len(outq[d]) + sends[d] <= MaxQueue

\* listener.accept() + accept_async + spawn of the send task (lines 43-78)
Accept(c) ==
    /\ conn[c].st = "free"
    /\ conn' = [conn EXCEPT ![c] = [st |-> "open", session_id |-> None, egress |-> "running"]]
    /\ ev' = NoEvent
    /\ UNCHANGED <<peers, rooms, outq>>

\* Message::Connect (lines 91-111)
OnConnect(c, f) ==
    LET sid == f.from
        sends == [NoSends EXCEPT ![c] = 1]
    IN
    IF SidLen(sid) < 12
    THEN \* &sid[..12] panics while the peers write guard is held; the task ends
         /\ conn' = [conn EXCEPT ![c].st = "panicked"]
         /\ ev' = NoEvent
         /\ UNCHANGED <<peers, rooms, outq>>
    ELSE /\ HasRoom(sends)
         /\ peers' = insert(peers, sid, c)
         /\ conn' = [conn EXCEPT ![c].session_id = Some(sid),
                                 \* tx.send(ack)? returns Err when the egress task is gone
                                 ![c].st = IF conn[c].egress = "running" THEN "open" ELSE "failed"]
         /\ outq' = Enqueue(sends, AckFrame)
         /\ ev' = NoEvent
         /\ UNCHANGED rooms

\* Message::Discover (lines 112-118)
OnDiscover(c, f) ==
    LET sends == IF contains_key(peers, f.target) THEN SendsTo({f.target}) ELSE NoSends
        send_failed == \E d \in Conns : sends[d] > 0 /\ conn[d].egress # "running"
    IN  /\ HasRoom(sends)
        /\ outq' = Enqueue(sends, f)
        /\ conn' = [conn EXCEPT ![c].st = IF send_failed THEN "failed" ELSE "open"]
        /\ ev' = NoEvent
        /\ UNCHANGED <<peers, rooms>>

\* every session-id in peers except this connection's own
AllButSender(c) == {s \in SIDs : contains_key(peers, s) /\ Some(s) # conn[c].session_id}

\* A plausible slip: the sender's own entry is not skipped
BroadcastTargets_All(c) == {s \in SIDs : contains_key(peers, s)}

BroadcastTargets(c) == AllButSender(c)

\* Message::KeyExchange | Message::AudioFrame (lines 119-127)
OnBroadcast(c, f) ==
    LET sends == SendsTo(BroadcastTargets(c))
    IN  /\ HasRoom(sends)
        /\ outq' = Enqueue(sends, f)
        /\ ev' = NoEvent
        /\ UNCHANGED <<peers, rooms, conn>>

\* A plausible slip: a targeted frame for an unknown target falls back to broadcast
EncryptedTargets_Fallback(c, f) ==
    IF f.target # "" /\ contains_key(peers, f.target) THEN {f.target} ELSE AllButSender(c)

EncryptedTargets(c, f) ==
    IF f.target # ""
    THEN (IF contains_key(peers, f.target) THEN {f.target} ELSE {})
    ELSE AllButSender(c)

\* Message::Encrypted (lines 128-144)
OnEncrypted(c, f) ==
    LET sends == SendsTo(EncryptedTargets(c, f))
    IN  /\ HasRoom(sends)
        /\ outq' = Enqueue(sends, f)
        /\ ev' = NoEvent
        /\ UNCHANGED <<peers, rooms, conn>>

\* Message::GroupJoin (lines 145-154)
OnGroupJoin(c, f) ==
    /\ rooms' = [rooms EXCEPT ![f.group_id] =
                    Some((IF rooms[f.group_id] = None THEN {} ELSE Unwrap(rooms[f.group_id]))
                         \cup {f.from})]
    /\ ev' = NoEvent
    /\ UNCHANGED <<peers, conn, outq>>

\* A plausible slip: the room is kept when its last member leaves
RoomAfterLeave_Kept(remaining) == Some(remaining)

\* `if remaining == 0 { rooms_write.remove(&group_id); }` (lines 166-168)
RoomAfterLeave(remaining) == IF remaining = {} THEN None ELSE Some(remaining)

\* Message::GroupLeave (lines 155-170); the event names the room the frame
\* deleted
OnGroupLeave(c, f) ==
    /\ rooms' = IF rooms[f.group_id] = None THEN rooms
                ELSE LET remaining == Unwrap(rooms[f.group_id]) \ {f.from}
                     IN  [rooms EXCEPT ![f.group_id] = RoomAfterLeave(remaining)]
    /\ ev' = IF rooms[f.group_id] # None /\ rooms'[f.group_id] = None
             THEN Event("left", c, f, {f.group_id}) ELSE NoEvent
    /\ UNCHANGED <<peers, conn, outq>>

\* A plausible slip: the sender is not excluded from the fan-out
GroupTargets_WithSender(f) ==
    IF rooms[f.group_id] = None THEN {}
    ELSE {m \in Unwrap(rooms[f.group_id]) : contains_key(peers, m)}

GroupTargets(f) ==
    IF rooms[f.group_id] = None THEN {}
    ELSE {m \in Unwrap(rooms[f.group_id]) : m # f.from /\ contains_key(peers, m)}

\* Message::GroupEncrypted (lines 171-184)
OnGroupEncrypted(c, f) ==
    LET sends == SendsTo(GroupTargets(f))
    IN  /\ HasRoom(sends)
        /\ outq' = Enqueue(sends, f)
        /\ ev' = NoEvent
        /\ UNCHANGED <<peers, rooms, conn>>

\* `_ => {}` (line 185): Ack, Error, Typing, ReadReceipt
OnOther(c, f) ==
    /\ ev' = Event("ignored", 0, f, {})
    /\ UNCHANGED <<peers, rooms, conn, outq>>

\* One turn of the ingress loop (lines 81-191): the relay reads frame f from
\* connection c and dispatches it
RelayOn(c, f) ==
    /\ conn[c].st = "open"
    /\ CASE f.kind = "Connect" -> OnConnect(c, f)
         [] f.kind = "Discover" -> OnDiscover(c, f)
         [] f.kind \in {"KeyExchange", "AudioFrame"} -> OnBroadcast(c, f)
         [] f.kind = "Encrypted" -> OnEncrypted(c, f)
         [] f.kind = "GroupJoin" -> OnGroupJoin(c, f)
         [] f.kind = "GroupLeave" -> OnGroupLeave(c, f)
         [] f.kind = "GroupEncrypted" -> OnGroupEncrypted(c, f)
         [] OTHER -> OnOther(c, f)

CleanupPeers(sid) == remove(peers, sid)

CleanupRooms(sid) ==
    [g \in GIDs |->
        IF rooms[g] = None THEN None
        ELSE LET members == Unwrap(rooms[g]) \ {sid}
             IN  IF members = {} THEN None ELSE Some(members)]

\* The ingress loop ends (Close frame, stream error or end of stream): cleanup
\* on disconnect and send_task.abort() (lines 188, 193-214)
Disconnect(c) ==
    /\ conn[c].st = "open"
    /\ IF IsSome(conn[c].session_id)
       THEN /\ peers' = CleanupPeers(Unwrap(conn[c].session_id))
            /\ rooms' = CleanupRooms(Unwrap(conn[c].session_id))
       ELSE UNCHANGED <<peers, rooms>>
    /\ conn' = [conn EXCEPT ![c].st = "closed", ![c].egress = "ended"]
    /\ outq' = [outq EXCEPT ![c] = <<>>]
    /\ ev' = NoEvent

\* The send task writes the oldest queued frame to the socket (lines 73-74)
EgressWrite(c) ==
    /\ conn[c].egress = "running"
    /\ outq[c] # <<>>
    /\ outq' = [outq EXCEPT ![c] = Tail(@)]
    /\ ev' = NoEvent
    /\ UNCHANGED <<peers, rooms, conn>>

\* The socket write fails: the send task ends and drops the receiver (lines 74-76)
EgressFail(c) ==
    /\ conn[c].egress = "running"
    /\ outq[c] # <<>>
    /\ conn' = [conn EXCEPT ![c].egress = "ended"]
    /\ outq' = [outq EXCEPT ![c] = <<>>]
    /\ ev' = NoEvent
    /\ UNCHANGED <<peers, rooms>>

InitRelay == RatchetIdle /\ InitRelayState /\ ClientIdle

NextRelay ==
    \/ \E c \in Conns : Accept(c) /\ UNCHANGED <<rs, wire, sentLog, rcvLog, nextKey, boot, cl>>
    \/ \E c \in Conns, f \in RelayFrames :
          RelayOn(c, f) /\ UNCHANGED <<rs, wire, sentLog, rcvLog, nextKey, boot, cl>>
    \/ \E c \in Conns : Disconnect(c) /\ UNCHANGED <<rs, wire, sentLog, rcvLog, nextKey, boot, cl>>
    \/ \E c \in Conns : EgressWrite(c) /\ UNCHANGED <<rs, wire, sentLog, rcvLog, nextKey, boot, cl>>
    \/ \E c \in Conns : EgressFail(c) /\ UNCHANGED <<rs, wire, sentLog, rcvLog, nextKey, boot, cl>>

SpecRelay == InitRelay /\ [][NextRelay]_vars


\* ---------------------------------------------------------------------------
\* Relay properties.  "The relay enqueues f to session s" is a send of f on
\* the channel registered as peers[s]; the channel discards a send made after
\* its egress task has ended.
\* ---------------------------------------------------------------------------
Running(d) == conn[d].egress = "running"
InRoom(s, g) == rooms[g] # None /\ s \in Unwrap(rooms[g])

\* outq' is outq with n(d) copies of f sent on each connection d
SentExactly(f, n(_)) ==
    \A d \in Conns : outq'[d] = IF Running(d) THEN outq[d] \o Copies(f, n(d)) ELSE outq[d]

\* C2: an Encrypted frame with a non-empty target t is enqueued only to the
\* queue registered as peers[t], once, and to no queue when t is not in peers.
C2_TargetedOnlyToTarget ==
    [][\A c \in Conns, f \in RelayFrames :
          (f.kind = "Encrypted" /\ f.target # "" /\ RelayOn(c, f)) =>
              LET n(d) == IF peers[f.target] = Some(d) THEN 1 ELSE 0
              IN  SentExactly(f, n)]_vars

\* a targeted frame waits in its target's queue while another registered
\* session's queue is empty
C2_Witness ==
    \E d, e \in Conns :
        /\ d # e
        /\ peers["s2"] = Some(d)
        /\ peers["s1"] = Some(e)
        /\ outq[d] = <<Frame("Encrypted", "s1", "s2", "")>>
        /\ outq[e] = <<>>

\* C3: a GroupEncrypted{from, gid} frame is enqueued to exactly the sessions
\* that are members of rooms[gid], are present in peers and differ from
\* `from`; with no room gid nothing is forwarded.
C3_GroupFanOut ==
    [][\A c \in Conns, f \in RelayFrames :
          (f.kind = "GroupEncrypted" /\ RelayOn(c, f)) =>
              LET n(d) == Cardinality({m \in SIDs : /\ InRoom(m, f.group_id)
                                                     /\ m # f.from
                                                     /\ peers[m] = Some(d)})
              IN  SentExactly(f, n)]_vars

\* both members of a room are registered, the frame from s1 waits in s2's
\* queue and s1's own queue is empty
C3_Witness ==
    \E d, e \in Conns :
        /\ d # e
        /\ peers["s1"] = Some(d) /\ peers["s2"] = Some(e)
        /\ InRoom("s1", "g1") /\ InRoom("s2", "g1")
        /\ outq[e] = <<Frame("GroupEncrypted", "s1", "", "g1")>>
        /\ outq[d] = <<>>

\* C4: a KeyExchange, an AudioFrame or an Encrypted frame with empty target
\* that arrives on a connection registered as session S is enqueued to every
\* session in peers other than S, and not to S.
IsBroadcast(f) ==
    f.kind \in {"KeyExchange", "AudioFrame"} \/ (f.kind = "Encrypted" /\ f.target = "")

C4_BroadcastSkipsSender ==
    [][\A c \in Conns, f \in RelayFrames :
          (IsBroadcast(f) /\ IsSome(conn[c].session_id) /\ RelayOn(c, f)) =>
              LET n(d) == Cardinality({t \in SIDs : /\ t # Unwrap(conn[c].session_id)
                                                     /\ peers[t] = Some(d)})
              IN  SentExactly(f, n)]_vars

\* s1's connection is registered, a KeyExchange waits in the queue of the
\* other session and none in its own
C4_Witness ==
    \E c, d \in Conns :
        /\ c # d
        /\ conn[c].session_id = Some("s1") /\ peers["s1"] = Some(c)
        /\ conn[d].session_id = Some("s2") /\ peers["s2"] = Some(d)
        /\ outq[d] = <<Frame("KeyExchange", "s1", "", "")>>
        /\ outq[c] = <<>>

\* C5 (as claimed): on Connect{sid} the relay sets peers[sid] to the
\* connecting connection's queue, whether or not sid was present, and
\* enqueues exactly one Ack to that connection and nothing to any other.
C5_ConnectRegistersAndAcks ==
    [][\A c \in Conns, f \in RelayFrames :
          (f.kind = "Connect" /\ RelayOn(c, f)) =>
              /\ peers'[f.from] = Some(c)
              /\ outq'[c] = Append(outq[c], AckFrame)
              /\ \A d \in Conns \ {c} : outq'[d] = outq[d]]_vars

\* C6: a Connect naming a session-id already in peers replaces that
\* session's queue with the new connection's queue and leaves the membership
\* of every room unchanged.
C6_ResumeReplacesQueueKeepsRooms ==
    [][\A c \in Conns, f \in RelayFrames :
          (f.kind = "Connect" /\ contains_key(peers, f.from) /\ RelayOn(c, f)) =>
              /\ peers'[f.from] = Some(c)
              /\ rooms' = rooms]_vars

\* s1 was registered by one connection, which is still open, and is now
\* routed to a second connection, while s1 is a member of a room
C6_Witness ==
    \E c, d \in Conns :
        /\ c # d
        /\ conn[c].st = "open" /\ conn[c].session_id = Some("s1")
        /\ conn[d].st = "open" /\ conn[d].session_id = Some("s1")
        /\ peers["s1"] = Some(d)
        /\ AckFrame \in {outq[d][i] : i \in 1..Len(outq[d])}
        /\ InRoom("s1", "g1")

\* C7 (as claimed): when a new connection has sent Connect{S} while an older
\* connection registered as S was still open, the older connection's closing
\* leaves peers[S] routed to the new connection.
C7_ReconnectKeepsSlot ==
    [][\A old, new \in Conns, S \in SIDs :
          (/\ old # new
           /\ conn[old].st = "open" /\ conn[old].session_id = Some(S)
           /\ conn[new].st = "open" /\ conn[new].session_id = Some(S)
           /\ peers[S] = Some(new)
           /\ conn'[old].st = "closed") =>
              peers'[S] = Some(new)]_vars

\* C8 (as claimed): when a connection that registered session-id S closes or
\* errors, S is removed from peers and from every room, and no room it was in
\* is left empty.
TaskEnds(c) == conn[c].st = "open" /\ conn'[c].st \in {"closed", "failed", "panicked"}

C8_CleanupOnDisconnect ==
    [][\A c \in Conns, S \in SIDs :
          (TaskEnds(c) /\ conn[c].session_id = Some(S)) =>
              /\ peers'[S] = None
              /\ \A g \in GIDs : ~InRoom(S, g)' /\ rooms'[g] # Some({})]_vars

\* ---------------------------------------------------------------------------
\* Client session manager and connection supervisor (src/client/mod.rs),
\* running against the relay above.  A websocket write and the relay's
\* handling of the frame are one step, and so are the relay's socket write and
\* the client's handling of the frame: the socket itself holds no frame.
\* ---------------------------------------------------------------------------
MaxAttempts == 1     \* transport losses one client goes through

LblBlake3 == 11      \* blake3::hash of the identity DH output

Clients == LongSids
IdentityKey(k) == CASE k = "s1" -> 21 [] k = "s2" -> 22 [] OTHER -> 23

\* `session_id_recv < from`: byte-wise string order
SidRank(sid) == CASE sid = "s1" -> 1 [] sid = "s2" -> 2 [] OTHER -> 3
\* A plausible slip: the role does not depend on the session-ids
SidLess_Always(a, b) == TRUE

SidLess(a, b) == SidRank(a) < SidRank(b)

\* Identity::key_exchange
key_exchange(k, peer_public_key) ==
    <<LblBlake3>> \o DiffieHellman(IdentityKey(k), peer_public_key)

KeyExchangeFrame(k) ==
    [Frame("KeyExchange", k, "", "") EXCEPT !.body.public_key = IdentityKey(k)]

\* ChatClient::new + connect: nothing connected, empty peer map, empty
\* outgoing channel
InitClientState ==
    cl = [k \in Clients |->
            [pc       |-> "down",      \* position in establish_connection
             conn     |-> 0,           \* the relay connection of the websocket
             attempt  |-> 0,
             acked    |-> FALSE,       \* "Connected to relay" / "Reconnected" shown
             receiver |-> "running",   \* the receiver task of this connection
             peers    |-> [p \in SIDs |-> None],
             ke_reply |-> <<>>,
             outgoing |-> <<>>,
             sent     |-> <<>>,        \* the first two frames written to this websocket
             stale    |-> 0,           \* sender tasks of failed connections still alive
             lost     |-> {},          \* what such tasks took from outgoing
             groups   |-> {}]]         \* the group tabs of the UI

\* ws_sender.send on the websocket of the current connection: the model
\* keeps the first two frames written to it
Written(sent, f) == IF Len(sent) < 2 THEN Append(sent, f) ELSE sent

\* connect_async (line 173) meets the relay's accept
ClientOpen(k, c) ==
    /\ cl[k].pc = "down"
    /\ Accept(c)
    /\ cl' = [cl EXCEPT ![k].pc = "connect", ![k].conn = c, ![k].sent = <<>>]
    /\ UNCHANGED <<rs, wire, sentLog, rcvLog, nextKey, boot>>

\* bootstrap, first frame: Connect with the unchanged session-id (lines 179-184)
ClientBootConnect(k) ==
    /\ cl[k].pc = "connect"
    /\ RelayOn(cl[k].conn, Frame("Connect", k, "", ""))
    /\ cl' = [cl EXCEPT ![k].pc = "keyex",
                        ![k].sent = Written(@, Frame("Connect", k, "", ""))]
    /\ UNCHANGED <<rs, wire, sentLog, rcvLog, nextKey, boot>>

\* A plausible slip: the tasks are spawned before the KeyExchange is written
ClientBootKeyExchange_AfterSpawn(k) ==
    /\ cl[k].pc = "keyex"
    /\ cl' = [cl EXCEPT ![k].pc = "run"]
    /\ ev' = NoEvent
    /\ UNCHANGED <<rs, wire, sentLog, rcvLog, nextKey, boot, peers, rooms, conn, outq>>

\* bootstrap, second frame: KeyExchange; then the receiver and sender tasks
\* are spawned (lines 186-212, 442)
ClientBootKeyExchange(k) ==
    /\ cl[k].pc = "keyex"
    /\ RelayOn(cl[k].conn, KeyExchangeFrame(k))
    /\ cl' = [cl EXCEPT ![k].pc = "run", ![k].sent = Written(@, KeyExchangeFrame(k))]
    /\ UNCHANGED <<rs, wire, sentLog, rcvLog, nextKey, boot>>

\* A plausible slip: every KeyExchange is treated as coming from a new peer
IsNewPeer_Always(peers_map, from) == TRUE

IsNewPeer(peers_map, from) == ~contains_key(peers_map, from)

\* Message::KeyExchange in the receiver task (lines 225-319), for a client
\* without a nickname
ClientOnKeyExchange(k, c, f) ==
    LET from == f.from
        secret == key_exchange(k, f.body.public_key)
        is_alice == SidLess(k, from)
        info == [ratchet    |-> RatchetInit(secret, is_alice, nextKey),
                 nickname   |-> None,
                 public_key |-> f.body.public_key]
    IN  IF from = k
        THEN ev' = NoEvent /\ UNCHANGED <<cl, nextKey>>
        ELSE IF IsNewPeer(cl[k].peers, from)
        THEN /\ cl' = [cl EXCEPT
                        ![k].peers = insert(@, from, info),
                        \* &from[..12] (line 253) panics on a shorter string
                        ![k].receiver = IF SidLen(from) < 12 THEN "panicked" ELSE @,
                        ![k].ke_reply = IF SidLen(from) < 12 THEN @
                                        ELSE Append(@, KeyExchangeFrame(k))]
             /\ nextKey' = nextKey + 1
             /\ ev' = NoEvent
        ELSE /\ ev' = Event("KeyExchangeIgnored", c, f, {})
             /\ UNCHANGED <<cl, nextKey>>

\* One turn of the receiver task (lines 213-431): the relay's send task
\* writes the oldest queued frame and the client handles it.  Ack and
\* KeyExchange are the frames that reach a client here.
ClientRecv(k) ==
    LET c == cl[k].conn IN
    /\ cl[k].pc = "run"
    /\ cl[k].receiver = "running"
    /\ conn[c].egress = "running"
    /\ outq[c] # <<>>
    /\ outq' = [outq EXCEPT ![c] = Tail(@)]
    /\ LET f == Head(outq[c])
       IN  CASE f.kind = "Ack" ->
                  /\ cl' = [cl EXCEPT ![k].acked = TRUE]
                  /\ ev' = NoEvent
                  /\ UNCHANGED nextKey
             [] f.kind = "KeyExchange" -> ClientOnKeyExchange(k, c, f)
             [] OTHER -> ev' = NoEvent /\ UNCHANGED <<cl, nextKey>>
    /\ UNCHANGED <<rs, wire, sentLog, rcvLog, boot, peers, rooms, conn>>

\* `outgoing_rx_clone.lock().await` (line 457): the sender task of the
\* current connection gets the receiver's mutex only when no older sender
\* task is alive, since a sender task holds the mutex through every select!
OutgoingLockFree(k) == cl[k].stale = 0

\* sender task, ke_reply_rx branch (lines 472-477)
ClientEgressKeReply(k) ==
    /\ cl[k].pc = "run"
    /\ OutgoingLockFree(k)
    /\ cl[k].ke_reply # <<>>
    /\ RelayOn(cl[k].conn, Head(cl[k].ke_reply))
    /\ cl' = [cl EXCEPT ![k].ke_reply = Tail(@),
                        ![k].sent = Written(@, Head(cl[k].ke_reply))]
    /\ UNCHANGED <<rs, wire, sentLog, rcvLog, nextKey, boot>>

\* sender task, OutgoingMessage::JoinRoom (lines 585-595)
ClientEgressOutgoing(k) ==
    /\ cl[k].pc = "run"
    /\ OutgoingLockFree(k)
    /\ cl[k].outgoing # <<>>
    /\ RelayOn(cl[k].conn, Frame("GroupJoin", k, "", Head(cl[k].outgoing).group_id))
    /\ cl' = [cl EXCEPT ![k].outgoing = Tail(@),
                        ![k].sent = Written(@, Frame("GroupJoin", k, "", Head(cl[k].outgoing).group_id))]
    /\ UNCHANGED <<rs, wire, sentLog, rcvLog, nextKey, boot>>

\* /group create (tui/groups.rs lines 18-45): the group is recorded and
\* JoinRoom is handed to the client
UiCreateGroup(k, g) ==
    /\ g \notin cl[k].groups
    /\ Len(cl[k].outgoing) < MaxQueue
    /\ cl' = [cl EXCEPT ![k].groups = @ \cup {g},
                        ![k].outgoing = Append(@, [kind |-> "JoinRoom", group_id |-> g])]
    /\ ev' = NoEvent
    /\ UNCHANGED <<rs, wire, sentLog, rcvLog, nextKey, boot, peers, rooms, conn, outq>>

\* The client loses the transport: establish_connection returns Err and the
\* supervisor counts the attempt and goes on to reconnect (lines 140-150,
\* 635-640); the peer map, the outgoing channel and the UI persist.  The
\* sender task of the connection (spawned at line 442, never aborted) stays
\* alive in its select!
TransportDrop(k) ==
    /\ cl[k].pc \in {"connect", "keyex", "run"}
    /\ cl[k].attempt < MaxAttempts
    /\ cl' = [cl EXCEPT ![k].pc = "down", ![k].conn = 0, ![k].attempt = @ + 1,
                        ![k].acked = FALSE, ![k].receiver = "running",
                        ![k].ke_reply = <<>>, ![k].sent = <<>>,
                        ![k].stale = IF cl[k].pc = "run" THEN @ + 1 ELSE @]
    /\ ev' = NoEvent
    /\ UNCHANGED <<rs, wire, sentLog, rcvLog, nextKey, boot, peers, rooms, conn, outq>>

\* The sender task of a failed connection takes the next OutgoingMessage
\* (lines 484-486) and writes the frame to its own websocket, where it never
\* reaches the relay; the task ends if the write reports the failure
StaleSenderOutgoing(k, ends) ==
    /\ cl[k].stale > 0
    /\ cl[k].outgoing # <<>>
    /\ cl' = [cl EXCEPT ![k].outgoing = Tail(@),
                        ![k].lost = @ \cup {Head(cl[k].outgoing)},
                        ![k].stale = IF ends THEN @ - 1 ELSE @]
    /\ ev' = NoEvent
    /\ UNCHANGED <<rs, wire, sentLog, rcvLog, nextKey, boot, peers, rooms, conn, outq>>

\* The sender task of a failed connection ends: its next ping cannot be
\* written, or no pong arrives in time (lines 450-468)
StaleSenderEnds(k) ==
    /\ cl[k].stale > 0
    /\ cl' = [cl EXCEPT ![k].stale = @ - 1]
    /\ ev' = NoEvent
    /\ UNCHANGED <<rs, wire, sentLog, rcvLog, nextKey, boot, peers, rooms, conn, outq>>

\* handle_connection has returned (line 214) and nothing refers to the
\* connection any more: its slot can serve a later accept
Reap(c) ==
    /\ conn[c].st = "closed"
    /\ \A k \in Clients : cl[k].conn # c
    /\ \A s \in SIDs : peers[s] # Some(c)
    /\ conn' = [conn EXCEPT ![c] = [st |-> "free", session_id |-> None, egress |-> "ended"]]
    /\ ev' = NoEvent
    /\ UNCHANGED <<rs, wire, sentLog, rcvLog, nextKey, boot, peers, rooms, outq, cl>>

InitClient ==
    /\ rs = [s \in Sides |-> 0]
    /\ wire = [s \in Sides |-> <<>>]
    /\ sentLog = [s \in Sides |-> <<>>]
    /\ rcvLog = [s \in Sides |-> <<>>]
    /\ boot = "idle"
    /\ nextKey = 1
    /\ InitRelayState
    /\ InitClientState

NextClient ==
    \/ \E k \in Clients, c \in Conns : ClientOpen(k, c)
    \/ \E k \in Clients : ClientBootConnect(k)
    \/ \E k \in Clients : ClientBootKeyExchange(k)
    \/ \E k \in Clients : ClientRecv(k)
    \/ \E k \in Clients : ClientEgressKeReply(k)
    \/ \E k \in Clients : ClientEgressOutgoing(k)
    \/ \E k \in Clients, g \in GIDs : UiCreateGroup(k, g)
    \/ \E k \in Clients : TransportDrop(k)
    \/ \E k \in Clients, ends \in BOOLEAN : StaleSenderOutgoing(k, ends)
    \/ \E k \in Clients : StaleSenderEnds(k)
    \/ \E c \in Conns : Disconnect(c) /\ UNCHANGED <<rs, wire, sentLog, rcvLog, nextKey, boot, cl>>
    \/ \E c \in Conns : Reap(c)

SpecClient == InitClient /\ [][NextClient]_vars

\* C9 (as claimed): after a transport drop and a resume with the same
\* session-id, once the client is connected again, the relay routes the
\* session to the new connection and the client has nothing left to send, the
\* relay's membership of every room the client had joined contains it again
\* (no JoinRoom was taken from the queue by a sender task of a failed
\* connection).
Resumed(k) ==
    /\ cl[k].attempt > 0
    /\ cl[k].pc = "run"
    /\ cl[k].acked
    /\ conn[cl[k].conn].st = "open"
    /\ peers[k] = Some(cl[k].conn)
    /\ cl[k].outgoing = <<>>
    /\ cl[k].ke_reply = <<>>
    /\ cl[k].lost = {}

C9_ResumeRejoinsRooms ==
    \A k \in Clients :
        Resumed(k) => \A g \in cl[k].groups : InRoom(k, g)

\* C10: a KeyExchange from a session-id that already has a peer record leaves
\* that record unchanged, creates no new ratchet and queues no reply
\* KeyExchange.
C10_DuplicateKeyExchangeIgnored ==
    [][\A k \in Clients :
          (/\ ClientRecv(k)
           /\ Head(outq[cl[k].conn]).kind = "KeyExchange"
           /\ contains_key(cl[k].peers, Head(outq[cl[k].conn]).from)) =>
              /\ cl'[k].peers = cl[k].peers
              /\ cl'[k].ke_reply = cl[k].ke_reply
              /\ nextKey' = nextKey]_vars

\* a client that holds a record for s1 has just handled a further KeyExchange
\* from s1
C10_Witness ==
    /\ ev.op = "KeyExchangeIgnored"
    /\ ev.frame.from = "s1"
    /\ \E k \in Clients :
          /\ cl[k].conn = ev.c
          /\ IsSome(cl[k].peers["s1"])
          /\ Unwrap(cl[k].peers["s1"]).ratchet.is_alice = FALSE

\* ---------------------------------------------------------------------------
\* The ratchet pair over a network that may reorder, repeat, alter and forge
\* frames.  Here ev keeps the history the properties speak about:
\*   sent[side]    the frames side encrypted, in order
\*   early[side]   for every frame of sent[side], whether side encrypted it
\*                 before it received any frame of its peer
\*   handed[side]  for every plaintext handed to side's application, the
\*                 position of its frame in the peer's sent sequence
\*   junk          the number of repeated, altered or forged deliveries
\*   junk_ok       whether one of them decrypted
\*   reordered     whether a frame overtook an older one
\*   last          the kind, receiver and result of the last decrypt call
\*   used[side]    the (DH public, message number) of every message key a
\*                 decrypt call of side has taken from the map or the chain
\*   evicted       whether a decrypt call has discarded a skipped key
\* ---------------------------------------------------------------------------
MaxNetMsgs == 3     \* encrypt calls in one run
MaxJunk == 2        \* repeated, altered or forged deliveries in one run
MaxEvict == 1       \* entries one skip may push the skipped map over MAX_SKIP

NoCall == [op |-> "none", side |-> "", ok |-> TRUE]

InitNet ==
    /\ boot \in {"exchanged", "none"}
    /\ rs = [s \in Sides |->
                LET me  == RatchetInit(SharedSecret, s = "alice", FirstKey(s))
                IN  IF boot = "exchanged" THEN set_remote_dh(me, FirstKey(Other(s))) ELSE me]
    /\ wire = [s \in Sides |-> <<>>]
    /\ sentLog = [s \in Sides |-> <<>>]
    /\ rcvLog = [s \in Sides |-> <<>>]
    /\ nextKey = 3
    /\ ev = [sent |-> [s \in Sides |-> <<>>], early |-> [s \in Sides |-> <<>>],
             handed |-> [s \in Sides |-> <<>>],
             junk |-> 0, junk_ok |-> FALSE, reordered |-> FALSE, last |-> NoCall,
             used |-> [s \in Sides |-> {}], evicted |-> FALSE]
    /\ peers = <<>> /\ rooms = <<>> /\ conn = <<>> /\ outq = <<>>
    /\ ClientIdle

\* side encrypts pt; the frame is on its way to the peer
NetEncrypt(side, pt) ==
    /\ LET e == Encrypt(rs[side], pt, nextKey)
           f == [header |-> e.header, nonce_ok |-> TRUE, ct |-> e.ct]
       IN  /\ rs' = [rs EXCEPT ![side] = e.sess]
           /\ wire' = [wire EXCEPT ![Other(side)] = Append(@, f)]
           /\ nextKey' = IF e.sess.dh_self_public # rs[side].dh_self_public
                         THEN nextKey + 1 ELSE nextKey
           /\ ev' = [ev EXCEPT !.sent[side] = Append(@, f),
                               !.early[side] = Append(@, rcvLog[side] = <<>>),
                               !.last = NoCall]
    /\ sentLog' = [sentLog EXCEPT ![side] = Append(@, pt)]
    /\ UNCHANGED <<rcvLog, boot, peers, rooms, conn, outq, cl>>

NetSend(side, pt) == TotalSent < MaxNetMsgs /\ NetEncrypt(side, pt)

SeqSet(q) == {q[i] : i \in 1..Len(q)}
RemoveAt(q, i) == [j \in 1..(Len(q) - 1) |-> IF j < i THEN q[j] ELSE q[j + 1]]
IndexOf(q, f) == CHOOSE i \in 1..Len(q) : q[i] = f

\* side calls decrypt on frame f; a plaintext is handed to the application
\* as soon as decrypt returns it (client/mod.rs lines 330-367)
NetDecrypt(side, f, op, genuine) ==
    \E d \in Decrypt(rs[side], f.header, f.nonce_ok, f.ct, nextKey) :
        /\ rs' = [rs EXCEPT ![side] = d.sess]
        /\ nextKey' = IF d.sess.dh_self_public # rs[side].dh_self_public
                      THEN nextKey + 1 ELSE nextKey
        /\ rcvLog' = IF genuine THEN [rcvLog EXCEPT ![side] = Append(@, d.res)] ELSE rcvLog
        /\ ev' = [ev EXCEPT
                    !.last = [op |-> op, side |-> side, ok |-> d.res.ok],
                    !.handed[side] = IF genuine /\ d.res.ok
                                     THEN Append(@, IndexOf(ev.sent[Other(side)], f)) ELSE @,
                    !.junk = IF genuine THEN @ ELSE @ + 1,
                    !.junk_ok = IF genuine THEN @ ELSE @ \/ d.res.ok,
                    !.reordered = @ \/ op = "overtake",
                    !.used[side] = @ \cup d.used,
                    !.evicted = @ \/ d.evicted > 0]
        /\ UNCHANGED <<sentLog, boot, peers, rooms, conn, outq, cl>>

\* the i-th frame in flight towards side arrives; i > 1 overtakes older frames
NetDeliver(side, i) ==
    /\ i \in 1..Len(wire[side])
    /\ NetDecrypt(side, wire[side][i], IF i = 1 THEN "deliver" ELSE "overtake", TRUE)
    /\ wire' = [wire EXCEPT ![side] = RemoveAt(@, i)]

\* a frame that was already delivered to side arrives once more
NetReplay(side, f) ==
    /\ ev.junk < MaxJunk
    /\ f \in SeqSet(ev.sent[Other(side)]) \ SeqSet(wire[side])
    /\ NetDecrypt(side, f, "replay", FALSE)
    /\ UNCHANGED wire

\* a copy of the oldest frame in flight arrives with its ciphertext replaced
\* by random bytes
Garbage == [key |-> <<>>, pt |-> 0]

NetTamper(side) ==
    /\ ev.junk < MaxJunk
    /\ wire[side] # <<>>
    /\ NetDecrypt(side, [Head(wire[side]) EXCEPT !.ct = Garbage], "tamper", FALSE)
    /\ UNCHANGED wire

\* headers an attacker may put on a frame of random bytes: the receiving
\* chain's DH public with a gap of 1 or of MAX_SKIP + 1 messages, or a DH
\* public the session has never seen
ForgedHeaders(s) ==
    {[dh_public |-> IF s.dh_remote = None THEN 90 ELSE Unwrap(s.dh_remote),
      prev_chain_len |-> 0,
      msg_num |-> s.recv_msg_num + g] : g \in {1, MAX_SKIP + 1}}
    \cup {[dh_public |-> 90, prev_chain_len |-> 0, msg_num |-> m]
          : m \in {0, s.recv_msg_num + MAX_SKIP + 1}}

\* headers that make the session store keys up to the limit: a gap of
\* MAX_SKIP messages on the receiving chain, or of one message
DeepHeaders(s) ==
    {[dh_public |-> IF s.dh_remote = None THEN 90 ELSE Unwrap(s.dh_remote),
      prev_chain_len |-> 0,
      msg_num |-> s.recv_msg_num + g] : g \in {1, MAX_SKIP}}

\* the number of keys a decrypt call with header h would store at most
SkipDemand(s, h) ==
    (IF h.prev_chain_len > s.recv_msg_num THEN h.prev_chain_len - s.recv_msg_num ELSE 0)
    + (IF h.msg_num <= MAX_SKIP THEN h.msg_num
       ELSE IF h.msg_num - s.recv_msg_num <= MAX_SKIP THEN h.msg_num - s.recv_msg_num ELSE 0)

NetForge(side, h) ==
    /\ ev.junk < MaxJunk
    /\ h \in ForgedHeaders(rs[side]) \cup DeepHeaders(rs[side])
    /\ Cardinality(rs[side].skipped_keys) + SkipDemand(rs[side], h) <= MAX_SKIP + MaxEvict
    /\ NetDecrypt(side, [header |-> h, nonce_ok |-> TRUE, ct |-> Garbage], "forge", FALSE)
    /\ UNCHANGED wire

NextNet ==
    \/ \E side \in Sides, pt \in Payloads : NetSend(side, pt)
    \/ \E side \in Sides, i \in 1..MaxNetMsgs : NetDeliver(side, i)
    \/ \E side \in Sides : \E f \in SeqSet(ev.sent[Other(side)]) : NetReplay(side, f)
    \/ \E side \in Sides : NetTamper(side)
    \/ \E side \in Sides : \E h \in ForgedHeaders(rs[side]) : NetForge(side, h)

SpecNet == InitNet /\ [][NextNet]_vars

\* The same pair with few messages and an attacker whose headers fill the
\* skipped-key map
MaxSkipMsgs == 1    \* encrypt calls in one run

NextSkip ==
    \/ \E side \in Sides, pt \in Payloads : TotalSent < MaxSkipMsgs /\ NetSend(side, pt)
    \/ \E side \in Sides, i \in 1..MaxSkipMsgs : NetDeliver(side, i)
    \/ \E side \in Sides : \E h \in DeepHeaders(rs[side]) : NetForge(side, h)

SpecSkip == InitNet /\ [][NextSkip]_vars

\* ---------------------------------------------------------------------------
\* C11: a decrypt call that returns an error leaves the session able to
\* decrypt every genuine frame it would have decrypted without that call.
\* With the DH publics exchanged and the genuine frames delivered once and in
\* sending order every genuine frame decrypts (C1), so it must still do so
\* when the only other decrypt calls are ones that returned an error.
\* ---------------------------------------------------------------------------
C11_ErrorsLeaveSessionUsable ==
    (boot = "exchanged" /\ ~ev.reordered /\ ~ev.junk_ok) =>
        \A side \in Sides : \A i \in 1..Len(rcvLog[side]) :
            rcvLog[side][i] = [ok |-> TRUE, pt |-> sentLog[Other(side)][i]]

\* the header asks for more than MAX_SKIP keys of the chain it names
ExcessiveSkip(s, h) ==
    h.msg_num - (IF IsSome(s.dh_remote) /\ Unwrap(s.dh_remote) # h.dh_public
                 THEN 0 ELSE s.recv_msg_num) > MAX_SKIP

\* ---------------------------------------------------------------------------
\* C12: a decrypt call whose header demands a skip of more than MAX_SKIP
\* messages returns an error and leaves the whole session state as it was, in
\* every session state: also before any remote DH public is known and when
\* the header carries a new DH public.
\* ---------------------------------------------------------------------------
C12_ExcessiveSkipLeavesState ==
    [][\A side \in Sides : \A h \in ForgedHeaders(rs[side]) :
          (ExcessiveSkip(rs[side], h) /\ NetForge(side, h))
              => (~ev'.last.ok /\ rs'[side] = rs[side])]_vars

\* ---------------------------------------------------------------------------
\* C13: a decrypt call that fails authentication (a genuine header on a
\* ciphertext of random bytes) returns an error and leaves the receive
\* counter, the receiving chain key and the skipped-key map unchanged.
\* ---------------------------------------------------------------------------
C13_AeadFailureLeavesRecvState ==
    [][\A side \in Sides :
          NetTamper(side)
              => /\ ~ev'.last.ok
                 /\ rs'[side].recv_msg_num = rs[side].recv_msg_num
                 /\ rs'[side].chain_key_recv = rs[side].chain_key_recv
                 /\ rs'[side].skipped_keys = rs[side].skipped_keys]_vars

\* ---------------------------------------------------------------------------
\* C14: after any sequence of encrypt and decrypt calls, whatever headers the
\* decrypted frames carry, a session's skipped-key map holds at most MAX_SKIP
\* entries.
\* ---------------------------------------------------------------------------
C14_SkippedMapBounded ==
    \A side \in Sides : Cardinality(rs[side].skipped_keys) <= MAX_SKIP

\* a session whose map is full after a skip that had to evict an entry: it
\* has passed more than MAX_SKIP + 1 message numbers of one chain
C14_Witness ==
    \E side \in Sides :
        /\ Cardinality(rs[side].skipped_keys) = MAX_SKIP
        /\ rs[side].recv_msg_num > MAX_SKIP + 1

\* ---------------------------------------------------------------------------
\* C15: the receiving client hands decrypted messages to its application in
\* the order the sender encrypted them, even when the frames arrive in
\* another order (no repeated, altered or forged frame is involved).
\* ---------------------------------------------------------------------------
C15_HandedInSenderOrder ==
    ev.junk = 0 =>
        \A side \in Sides : \A i, j \in 1..Len(ev.handed[side]) :
            i < j => ev.handed[side][i] < ev.handed[side][j]

\* ---------------------------------------------------------------------------
\* Media keys (voice and screen share): derived from voice_base_key, cached in
\* the session
\* ---------------------------------------------------------------------------
\* A plausible slip: the media keys are derived from the root key
MediaIkm_RootKey(s) == s.root_key

\* `Hkdf::<Sha256>::new(None, &self.voice_base_key)`
MediaIkm(s) == s.voice_base_key

\* A plausible slip: the cached key is returned after one more expansion
CachedKey_Expanded(cached) == HkdfExpand(Unwrap(cached), LblVoice)

\* `if let Some(vk) = self.voice_key { return vk; }`
CachedKey(cached) == Unwrap(cached)

\* A plausible slip: the voice key is taken from the sending chain, which
\* advances
derive_voice_key_FromChain(s) ==
    LET k == kdf_chain(Unwrap(s.chain_key_send))
    IN  [sess |-> [s EXCEPT !.voice_key = Some(k.mk), !.chain_key_send = Some(k.chain)],
         key |-> k.mk]

\* derive_voice_key: [sess, key]
derive_voice_key(s) ==
    IF IsSome(s.voice_key) THEN [sess |-> s, key |-> CachedKey(s.voice_key)]
    ELSE LET vk == HkdfExpand(MediaIkm(s), LblVoice)
         IN  [sess |-> [s EXCEPT !.voice_key = Some(vk)], key |-> vk]

\* derive_screen_key: [sess, key]
derive_screen_key(s) ==
    IF IsSome(s.screen_key) THEN [sess |-> s, key |-> CachedKey(s.screen_key)]
    ELSE LET sk == HkdfExpand(MediaIkm(s), LblScreen)
         IN  [sess |-> [s EXCEPT !.screen_key = Some(sk)], key |-> sk]

clear_screen_key(s) == [s EXCEPT !.screen_key = None]
clear_voice_key(s) == [s EXCEPT !.voice_key = None]

\* The ratchet pair with media-key calls between the encrypt and decrypt
\* calls.  Here ev keeps, per side, the keys the derive calls have returned
\* and whether a key was derived again after a clear.
MaxMediaMsgs == 2    \* encrypt calls in one run
MaxAudio == 1        \* audio frames sent in one run

InitMedia ==
    /\ boot \in {"exchanged", "none"}
    /\ rs = [s \in Sides |->
                LET me  == RatchetInit(SharedSecret, s = "alice", FirstKey(s))
                IN  IF boot = "exchanged" THEN set_remote_dh(me, FirstKey(Other(s))) ELSE me]
    /\ wire = [s \in Sides |-> <<>>]
    /\ sentLog = [s \in Sides |-> <<>>]
    /\ rcvLog = [s \in Sides |-> <<>>]
    /\ nextKey = 3
    /\ ev = [voice |-> [s \in Sides |-> {}], screen |-> [s \in Sides |-> {}],
             again |-> [s \in Sides |-> FALSE],
             audio |-> 0, heard |-> [s \in Sides |-> 0]]
    /\ outq = [s \in Sides |-> <<>>]
    /\ peers = <<>> /\ rooms = <<>> /\ conn = <<>>
    /\ ClientIdle

MediaSend(side, pt) == TotalSent < MaxMediaMsgs /\ RSend(side, pt)

MediaDeriveVoice(side) ==
    LET d == derive_voice_key(rs[side])
    IN  /\ rs' = [rs EXCEPT ![side] = d.sess]
        /\ ev' = [ev EXCEPT !.voice[side] = @ \cup {d.key},
                            !.again[side] = @ \/ (rs[side].voice_key = None /\ ev.voice[side] # {})]
        /\ UNCHANGED <<wire, sentLog, rcvLog, nextKey, boot, peers, rooms, conn, outq, cl>>

MediaDeriveScreen(side) ==
    LET d == derive_screen_key(rs[side])
    IN  /\ rs' = [rs EXCEPT ![side] = d.sess]
        /\ ev' = [ev EXCEPT !.screen[side] = @ \cup {d.key}]
        /\ UNCHANGED <<wire, sentLog, rcvLog, nextKey, boot, peers, rooms, conn, outq, cl>>

MediaClearVoice(side) ==
    /\ rs' = [rs EXCEPT ![side] = clear_voice_key(@)]
    /\ UNCHANGED <<wire, sentLog, rcvLog, nextKey, boot, peers, rooms, conn, outq, ev, cl>>

MediaClearScreen(side) ==
    /\ rs' = [rs EXCEPT ![side] = clear_screen_key(@)]
    /\ UNCHANGED <<wire, sentLog, rcvLog, nextKey, boot, peers, rooms, conn, outq, ev, cl>>

\* sender task, OutgoingMessage::Audio (client/mod.rs lines 607-627): the
\* frame is sealed under the peer's voice key and travels to the peer
AudioSend(side, data) ==
    /\ ev.audio < MaxAudio
    /\ LET d == derive_voice_key(rs[side])
       IN  /\ rs' = [rs EXCEPT ![side] = d.sess]
           /\ outq' = [outq EXCEPT ![Other(side)] =
                          Append(@, [nonce_ok |-> TRUE, ct |-> encrypt_with_key(d.key, data)])]
           /\ ev' = [ev EXCEPT !.voice[side] = @ \cup {d.key}, !.audio = @ + 1]
    /\ UNCHANGED <<wire, sentLog, rcvLog, nextKey, boot, peers, rooms, conn, cl>>

\* receiver task, Message::AudioFrame (client/mod.rs lines 404-416)
AudioRecv(side) ==
    /\ outq[side] # <<>>
    /\ LET f == Head(outq[side])
           d == derive_voice_key(rs[side])
       IN  /\ rs' = [rs EXCEPT ![side] = d.sess]
           /\ ev' = [ev EXCEPT !.voice[side] = @ \cup {d.key},
                               !.heard[side] = IF decrypt_with_key(d.key, f.nonce_ok, f.ct).ok
                                               THEN @ + 1 ELSE @]
    /\ outq' = [outq EXCEPT ![side] = Tail(@)]
    /\ UNCHANGED <<wire, sentLog, rcvLog, nextKey, boot, peers, rooms, conn, cl>>

NextMedia ==
    \/ \E side \in Sides, data \in Payloads : AudioSend(side, data)
    \/ \E side \in Sides : AudioRecv(side)
    \/ \E side \in Sides, pt \in Payloads : MediaSend(side, pt)
    \/ \E side \in Sides : RDeliver(side)
    \/ \E side \in Sides : MediaDeriveVoice(side)
    \/ \E side \in Sides : MediaDeriveScreen(side)
    \/ \E side \in Sides : MediaClearVoice(side)
    \/ \E side \in Sides : MediaClearScreen(side)

SpecMedia == InitMedia /\ [][NextMedia]_vars

\* ---------------------------------------------------------------------------
\* C16: whatever encrypt, decrypt and DH ratchet steps the two sessions have
\* made, and whichever of them is the initiator, a voice key derived on one
\* side equals a voice key derived on the other, and likewise for the screen
\* keys.
\* ---------------------------------------------------------------------------
C16_MediaKeysAgree ==
    /\ \A a \in ev.voice["alice"], b \in ev.voice["bob"] : a = b
    /\ \A a \in ev.screen["alice"], b \in ev.screen["bob"] : a = b

\* both sides have derived both keys, one of them after the DH ratchet steps
\* that replaced both root keys
C16_Witness ==
    /\ \A side \in Sides :
          /\ ev.voice[side] # {} /\ ev.screen[side] # {}
          /\ rs[side].dh_self_public # FirstKey(side)
    /\ rs["alice"].root_key # rs["bob"].root_key
    /\ rs["alice"].screen_key = None

\* ---------------------------------------------------------------------------
\* C17: every derive_voice_key call of a session returns the same key; the
\* key is cached in the session, and a call after clear_voice_key derives the
\* identical key again.
\* ---------------------------------------------------------------------------
C17_VoiceKeyStable ==
    \A side \in Sides :
        /\ Cardinality(ev.voice[side]) <= 1
        /\ IsSome(rs[side].voice_key) => ev.voice[side] = {Unwrap(rs[side].voice_key)}

\* a side has derived its voice key again after a clear, with a DH ratchet
\* step in between
C17_Witness ==
    \E side \in Sides :
        /\ ev.again[side]
        /\ IsSome(rs[side].voice_key)
        /\ rs[side].dh_self_public # FirstKey(side)

\* the key of the n-th message of side's initial sending chain
InitialChainKey(side, n) ==
    kdf_chain(ChainAfter(Unwrap(RatchetInit(SharedSecret, side = "alice", FirstKey(side)).chain_key_send),
                         n - 1)).mk

\* ---------------------------------------------------------------------------
\* C18: when neither session calls set_remote_dh and the initiator sends
\* before it has received anything (frames delivered once and in order), the
\* messages the initiator sends before its first decrypt are encrypted on its
\* initial chain under its initial DH public, with no DH ratchet step; the
\* responder decrypts them, and the initiator decrypts the responder's replies.
\* ---------------------------------------------------------------------------
C18_NoExchangeInitiatorFirst ==
    (/\ boot = "none" /\ ev.junk = 0 /\ ~ev.reordered
     /\ (ev.sent["alice"] # <<>> => ev.early["alice"][1]))
    => /\ \A i \in 1..Len(ev.sent["alice"]) :
             ev.early["alice"][i] =>
                /\ ev.sent["alice"][i].header =
                       [dh_public |-> FirstKey("alice"), prev_chain_len |-> 0, msg_num |-> i - 1]
                /\ ev.sent["alice"][i].ct.key = InitialChainKey("alice", i)
       /\ \A side \in Sides : \A i \in 1..Len(rcvLog[side]) :
             rcvLog[side][i] = [ok |-> TRUE, pt |-> sentLog[Other(side)][i]]

\* the initiator has sent two messages before receiving anything, the
\* responder has decrypted both and the initiator has decrypted a reply
C18_Witness ==
    /\ boot = "none" /\ ev.junk = 0 /\ ~ev.reordered
    /\ Len(ev.early["alice"]) >= 2 /\ ev.early["alice"][2]
    /\ Len(rcvLog["bob"]) >= 2
    /\ Len(rcvLog["alice"]) >= 1

\* ---------------------------------------------------------------------------
\* A strictly alternating exchange a1, b1, a2, b2, ...: a side encrypts only
\* when it is its turn and nothing is in flight, and every frame is delivered
\* before the next is encrypted
\* ---------------------------------------------------------------------------
MaxTurns == 6    \* encrypt calls in one run

WhoseTurn == IF Len(sentLog["alice"]) = Len(sentLog["bob"]) THEN "alice" ELSE "bob"

TurnSend(side, pt) ==
    /\ TotalSent < MaxTurns
    /\ side = WhoseTurn
    /\ \A s \in Sides : wire[s] = <<>>
    /\ NetEncrypt(side, pt)

TurnDeliver(side) == NetDeliver(side, 1)

NextTurns ==
    \/ \E side \in Sides, pt \in Payloads : TurnSend(side, pt)
    \/ \E side \in Sides : TurnDeliver(side)

SpecTurns == InitNet /\ [][NextTurns]_vars

\* ---------------------------------------------------------------------------
\* C19: in a strictly alternating exchange after both sides called
\* set_remote_dh every message decrypts; a side that has just decrypted a
\* message holds a DH public it has not used in any header before, and the
\* DH publics in the headers of its consecutive turns differ.
\* ---------------------------------------------------------------------------
C19_AlternatingRatchets ==
    boot = "exchanged" =>
        \A side \in Sides :
            /\ \A i \in 1..Len(rcvLog[side]) :
                  rcvLog[side][i] = [ok |-> TRUE, pt |-> sentLog[Other(side)][i]]
            /\ (ev.last.op = "deliver" /\ ev.last.side = side) =>
                  \A i \in 1..Len(ev.sent[side]) :
                      ev.sent[side][i].header.dh_public # rs[side].dh_self_public
            /\ \A i \in 1..(Len(ev.sent[side]) - 1) :
                  ev.sent[side][i + 1].header.dh_public # ev.sent[side][i].header.dh_public

\* the exchange has reached b3 and alice has decrypted it: each side has
\* had three turns
C19_Witness ==
    /\ boot = "exchanged"
    /\ Len(ev.sent["alice"]) = 3 /\ Len(ev.sent["bob"]) = 3
    /\ Len(rcvLog["alice"]) = 3
    /\ ev.last = [op |-> "deliver", side |-> "alice", ok |-> TRUE]

\* ---------------------------------------------------------------------------
\* C20: the outbound application queue survives transport drops: no
\* OutgoingMessage is taken from it by a sender task whose connection has
\* already been declared failed, so nothing the UI enqueues during or after
\* a drop is lost.
\* ---------------------------------------------------------------------------
C20_QueueSurvivesDrops ==
    \A k \in Clients : cl[k].lost = {}

\* ---------------------------------------------------------------------------
\* Connection supervisor and heartbeat of one client (src/client/mod.rs lines
\* 115-153 and 442-471), with time.  Here cl is one record:
\*   sup              position of the reconnection loop
\*   reconnect_delay, attempt   its two locals
\*   sender           position of the sender task: "top" of its loop, parked
\*                    in "select", "ended", or "none" when not connected
\*   tick_in          seconds until ping_interval yields its next tick
\*   pending_pong     the sender task's flag
\*   deadline_in      pong_deadline minus now, in seconds; below 0: passed
\*   pong_rx          pongs the receiver task has queued for the sender task
\*   pings            pings the peer has not answered yet
\*   outgoing         OutgoingMessages waiting in the UI's channel
\*   link             "up", "silent" (writes succeed, nothing comes back),
\*                    "broken" (writes fail), "closed" (Close received)
\*   failure          failure_tx holds a reason
\* and ev keeps the sleeps of the reconnection loop since its last reset and
\* how the last connection ended.
\* ---------------------------------------------------------------------------
MaxFails == 7       \* failed connection attempts in one run
MaxOut == 1         \* OutgoingMessages waiting at one time

PingEvery == 30     \* Duration::from_secs(30)
PongWithin == 10    \* Duration::from_secs(10)
FirstDelay == 1     \* let mut reconnect_delay = 1u64
DelayCap == 30      \* .min(30)

\* A plausible slip: the doubling is not capped
NextDelay_NoCap(d) == d * 2

\* `reconnect_delay = (reconnect_delay * 2).min(30)`
NextDelay(d) == IF d * 2 < DelayCap THEN d * 2 ELSE DelayCap

\* What establish_connection returns once it has run to its end: both arms
\* of the failure wait are Err (lines 635-640), as is every `?` before
EstablishResult(reason) == "Err"

NotConnected ==
    [sender |-> "none", tick_in |-> 0, pending_pong |-> FALSE, deadline_in |-> 0,
     pong_rx |-> 0, pings |-> 0, link |-> "none", failure |-> FALSE]

\* `match Self::establish_connection(...).await` (lines 121-151)
SupOnResult(result, reason) ==
    /\ cl' = [f \in DOMAIN cl |->
                IF f = "sup" THEN "connecting"
                ELSE IF f = "outgoing" THEN cl.outgoing
                ELSE IF f = "reconnect_delay"
                     THEN IF result = "Ok" THEN FirstDelay ELSE NextDelay(cl.reconnect_delay)
                ELSE IF f = "attempt"
                     THEN IF result = "Ok" THEN 0 ELSE cl.attempt + 1
                ELSE NotConnected[f]]
    /\ ev' = [slept |-> IF result = "Ok" THEN <<>> ELSE Append(ev.slept, cl.reconnect_delay),
              ended |-> reason]

HbIdleRest ==
    /\ rs = [s \in Sides |-> 0]
    /\ wire = [s \in Sides |-> <<>>]
    /\ sentLog = [s \in Sides |-> <<>>]
    /\ rcvLog = [s \in Sides |-> <<>>]
    /\ nextKey = 0
    /\ boot = "idle"
    /\ peers = <<>> /\ rooms = <<>> /\ conn = <<>> /\ outq = <<>>

InitHb ==
    /\ HbIdleRest
    /\ cl = [sup |-> "connecting", reconnect_delay |-> FirstDelay, attempt |-> 0,
             outgoing |-> 0] @@ NotConnected
    /\ ev = [slept |-> <<>>, ended |-> "none"]

HbRest == UNCHANGED <<rs, wire, sentLog, rcvLog, nextKey, boot, peers, rooms, conn, outq>>

\* connect_async and the bootstrap (lines 173-192): they succeed and the two
\* tasks are spawned, or a `?` returns Err
HbConnect(ok) ==
    /\ cl.sup = "connecting"
    /\ cl.attempt < MaxFails
    /\ IF ok
       THEN /\ cl' = [cl EXCEPT !.sup = "connected", !.sender = "top", !.link = "up"]
            /\ UNCHANGED ev
       ELSE SupOnResult(EstablishResult("connect"), "connect")
    /\ HbRest

\* top of the sender task's loop (lines 448-457): the deadline test, then the
\* lock and select!
HbSenderTop ==
    /\ cl.sup = "connected" /\ cl.sender = "top"
    /\ IF cl.pending_pong /\ cl.deadline_in < 0
       THEN cl' = [cl EXCEPT !.failure = TRUE, !.sender = "ended"]
       ELSE cl' = [cl EXCEPT !.sender = "select"]
    /\ UNCHANGED ev /\ HbRest

\* select!, ping_interval.tick() branch (lines 459-467)
HbSenderTick ==
    /\ cl.sup = "connected" /\ cl.sender = "select"
    /\ cl.tick_in = 0
    /\ IF cl.link = "broken"
       THEN cl' = [cl EXCEPT !.failure = TRUE, !.sender = "ended"]
       ELSE cl' = [cl EXCEPT !.pending_pong = TRUE, !.deadline_in = PongWithin,
                            !.tick_in = PingEvery,
                            !.pings = IF cl.link = "up" THEN 1 ELSE @,
                            !.sender = "top"]
    /\ UNCHANGED ev /\ HbRest

\* select!, pong_rx.recv() branch (lines 468-471)
HbSenderPong ==
    /\ cl.sup = "connected" /\ cl.sender = "select"
    /\ cl.pong_rx > 0
    /\ cl' = [cl EXCEPT !.pong_rx = @ - 1, !.pending_pong = FALSE, !.sender = "top"]
    /\ UNCHANGED ev /\ HbRest

\* select!, outgoing branch (lines 484-630): the frame is written
HbSenderOutgoing ==
    /\ cl.sup = "connected" /\ cl.sender = "select"
    /\ cl.outgoing > 0
    /\ IF cl.link = "broken"
       THEN cl' = [cl EXCEPT !.outgoing = @ - 1, !.failure = TRUE, !.sender = "ended"]
       ELSE cl' = [cl EXCEPT !.outgoing = @ - 1, !.sender = "top"]
    /\ UNCHANGED ev /\ HbRest

\* the peer answers the ping and the receiver task queues the pong (lines
\* 421-424)
HbPeerPong ==
    /\ cl.sup = "connected" /\ cl.link = "up"
    /\ cl.pings > 0
    /\ cl' = [cl EXCEPT !.pings = 0, !.pong_rx = 1]
    /\ UNCHANGED ev /\ HbRest

\* the transport stops answering or stops taking writes
HbLinkFails(to) ==
    /\ cl.sup = "connected" /\ cl.link = "up"
    /\ to \in {"silent", "broken"}
    /\ cl' = [cl EXCEPT !.link = to]
    /\ UNCHANGED ev /\ HbRest

\* the relay closes the websocket: the receiver task reads Close and signals
\* the failure (lines 425-428)
HbCleanClose ==
    /\ cl.sup = "connected" /\ cl.link = "up"
    /\ cl' = [cl EXCEPT !.link = "closed", !.failure = TRUE]
    /\ UNCHANGED ev /\ HbRest

\* the UI hands over an OutgoingMessage
HbUiEnqueue ==
    /\ cl.outgoing < MaxOut
    /\ cl' = [cl EXCEPT !.outgoing = @ + 1]
    /\ UNCHANGED ev /\ HbRest

\* failure_rx.recv() yields (lines 635-640) and the reconnection loop handles
\* the result, sleep included
HbSupFailure ==
    /\ cl.sup = "connected"
    /\ cl.failure
    /\ LET reason == IF cl.link = "closed" THEN "closed" ELSE "failed"
       IN  SupOnResult(EstablishResult(reason), reason)
    /\ HbRest

\* time passes while every task is parked; the clock moves in steps of the
\* pong window, which divides the ping interval
HbAdvance ==
    /\ cl.sup = "connected" /\ cl.sender = "select"
    /\ ~cl.failure
    /\ cl.tick_in > 0 /\ cl.pong_rx = 0 /\ cl.outgoing = 0
    /\ ~(cl.link = "up" /\ cl.pings > 0)
    /\ cl' = [cl EXCEPT !.tick_in = @ - PongWithin,
                        !.deadline_in = IF @ < 0 THEN @ ELSE @ - PongWithin]
    /\ UNCHANGED ev /\ HbRest

NextHb ==
    \/ \E ok \in BOOLEAN : HbConnect(ok)
    \/ HbSenderTop
    \/ HbSenderTick
    \/ HbSenderPong
    \/ HbSenderOutgoing
    \/ HbPeerPong
    \/ \E to \in {"silent", "broken"} : HbLinkFails(to)
    \/ HbCleanClose
    \/ HbUiEnqueue
    \/ HbSupFailure
    \/ HbAdvance

SpecHb == InitHb /\ [][NextHb]_vars

\* the tasks and the clock run whenever they can; the transport and the UI
\* need not do anything
SpecHbFair ==
    /\ SpecHb
    /\ WF_vars(HbSenderTop) /\ WF_vars(HbSenderTick) /\ WF_vars(HbSenderPong)
    /\ WF_vars(HbSenderOutgoing) /\ WF_vars(HbPeerPong)
    /\ WF_vars(HbSupFailure) /\ WF_vars(HbAdvance)

\* a ping is out, no pong has come and the 10 s have passed
PongOverdue ==
    /\ cl.sup = "connected"
    /\ cl.pending_pong /\ cl.deadline_in < 0
    /\ cl.pong_rx = 0

\* ---------------------------------------------------------------------------
\* C21: when a heartbeat ping has been sent and no pong has arrived within
\* 10 s, the sender task signals failure to the supervisor (which then
\* reconnects), also on a connection with no other traffic.
\* ---------------------------------------------------------------------------
C21_PongTimeoutSignalled ==
    PongOverdue ~> (cl.failure \/ cl.sup # "connected")

\* ---------------------------------------------------------------------------
\* C22: across consecutive failed connection attempts the reconnect sleep
\* takes the values 1, 2, 4, 8, 16, 30, 30, ... seconds, and in every
\* reachable state the delay lies between 1 and 30.
\* ---------------------------------------------------------------------------
C22_BackoffSequence ==
    /\ cl.reconnect_delay \in 1..30
    /\ \A i \in 1..Len(ev.slept) :
          ev.slept[i] = IF i <= 5 THEN 2^(i - 1) ELSE 30

\* seven attempts in a row have failed: the loop has slept 30 s twice
C22_Witness ==
    /\ Len(ev.slept) = 7
    /\ ev.slept[6] = 30 /\ ev.slept[7] = 30

\* ---------------------------------------------------------------------------
\* C23: after an established connection has ended by a clean disconnect the
\* reconnection loop goes to its next attempt with the delay reset to 1 s
\* and the attempt counter reset to 0.
\* ---------------------------------------------------------------------------
C23_CleanDisconnectResets ==
    [][(HbSupFailure /\ cl.link = "closed")
          => (cl'.reconnect_delay = FirstDelay /\ cl'.attempt = 0)]_vars

\* ---------------------------------------------------------------------------
\* Group messaging: three clients in one relay room, with pairwise ratchets
\* created as the KeyExchange handler creates them (no set_remote_dh).  Here
\*   cl[k].peers    k's peer map,  cl[k].handed  what k's application got
\*   outq[k]        frames the relay has queued for k's connection
\*   peers, rooms   the relay's maps
\*   ev             the last send: who, which list, which frames
\*   sentLog        under "alice", the sends made so far: kind, sender, list
\* A websocket write and the relay's handling of the frame are one step.
\* ---------------------------------------------------------------------------
MaxGroupSends == 1     \* OutgoingMessage::Group handled in one run
MaxDirectSends == 2    \* OutgoingMessage::Direct handled in one run

Members == {"s1", "s2", "s3"}

\* the key pair RatchetSession::init draws for k's ratchet with p
PairKey(k, p) == 30 + 3 * SidRank(k) + SidRank(p)

\* the peer record the KeyExchange handler stores for p (lines 236-250)
PeerRecord(k, p) ==
    [ratchet    |-> RatchetInit(key_exchange(k, IdentityKey(p)), SidLess(k, p), PairKey(k, p)),
     nickname   |-> None,
     public_key |-> IdentityKey(p)]

\* the member lists a group tab may hold
MemberLists ==
    {<<"s1", "s2", "s3">>, <<"s3", "s2", "s1">>, <<"s2", "s3">>, <<"s1", "s3">>, <<"s2">>}

\* A plausible slip: the frame is built as in the Global arm
GroupFrame_AsDirect(k, gid, e) ==
    [Frame("Encrypted", k, "", gid) EXCEPT !.body.header = e.header, !.body.ct = e.ct]

GroupFrame(k, gid, e) ==
    [Frame("GroupEncrypted", k, "", gid) EXCEPT !.body.header = e.header, !.body.ct = e.ct]

DirectFrame(k, target, e) ==
    [Frame("Encrypted", k, target, "") EXCEPT !.body.header = e.header, !.body.ct = e.ct]

\* OutgoingMessage::Group (lines 550-584): the loop over member_ids, on a
\* websocket that takes every write.  [peers, frames, fresh]
RECURSIVE GroupLoop(_, _, _, _, _, _)
GroupLoop(k, peers_map, member_ids, gid, pt, fresh) ==
    IF member_ids = <<>> THEN [peers |-> peers_map, frames |-> <<>>, fresh |-> fresh]
    ELSE LET m == Head(member_ids) IN
         IF contains_key(peers_map, m)
         THEN LET info == Unwrap(peers_map[m])
                  e    == Encrypt(info.ratchet, pt, fresh)
                  used == IF e.sess.dh_self_public # info.ratchet.dh_self_public THEN 1 ELSE 0
                  rest == GroupLoop(k, insert(peers_map, m, [info EXCEPT !.ratchet = e.sess]),
                                    Tail(member_ids), gid, pt, fresh + used)
              IN  [rest EXCEPT !.frames = <<GroupFrame(k, gid, e)>> \o @]
         ELSE GroupLoop(k, peers_map, Tail(member_ids), gid, pt, fresh)

GroupSendsDone == Cardinality({i \in 1..Len(sentLog["alice"]) : sentLog["alice"][i].op = "group"})
DirectSendsDone == Len(sentLog["alice"]) - GroupSendsDone

GroupRest == UNCHANGED <<rs, wire, rcvLog, boot, peers, rooms, conn>>

\* the sender task handles OutgoingMessage::Group and the relay fans every
\* frame out to the room (relay/mod.rs lines 171-184)
GroupSend(k, member_ids) ==
    /\ GroupSendsDone < MaxGroupSends
    /\ LET pt == Len(sentLog["alice"]) + 1
           r  == GroupLoop(k, cl[k].peers, member_ids, "g1", pt, nextKey)
       IN  /\ cl' = [cl EXCEPT ![k].peers = r.peers]
           /\ nextKey' = r.fresh
           /\ outq' = [m \in Members |->
                         IF r.frames # <<>> /\ m \in GroupTargets(r.frames[1])
                         THEN outq[m] \o r.frames ELSE outq[m]]
           /\ ev' = [op |-> "group", k |-> k, members |-> member_ids, pt |-> pt,
                     frames |-> r.frames]
    /\ sentLog' = [sentLog EXCEPT !["alice"] = Append(@, [op |-> "group", k |-> k, members |-> member_ids])]
    /\ GroupRest

\* the sender task handles OutgoingMessage::Direct (lines 487-513) and the
\* relay forwards the frame to its target (relay/mod.rs lines 128-143)
DirectSend(k, target) ==
    /\ DirectSendsDone < MaxDirectSends
    /\ target # k
    /\ contains_key(cl[k].peers, target)
    /\ LET pt   == Len(sentLog["alice"]) + 1
           info == Unwrap(cl[k].peers[target])
           e    == Encrypt(info.ratchet, pt, nextKey)
       IN  /\ cl' = [cl EXCEPT ![k].peers = insert(@, target, [info EXCEPT !.ratchet = e.sess])]
           /\ nextKey' = IF e.sess.dh_self_public # info.ratchet.dh_self_public
                         THEN nextKey + 1 ELSE nextKey
           /\ outq' = [outq EXCEPT ![target] = Append(@, DirectFrame(k, target, e))]
           /\ ev' = [op |-> "direct", k |-> k, members |-> <<target>>, pt |-> pt,
                     frames |-> <<DirectFrame(k, target, e)>>]
    /\ sentLog' = [sentLog EXCEPT !["alice"] = Append(@, [op |-> "direct", k |-> k, members |-> <<target>>])]
    /\ GroupRest

\* the receiver task handles the oldest frame queued for k: Message::Encrypted
\* (lines 320-375) or Message::GroupEncrypted (lines 376-403)
\* A plausible slip: a ratchet is made up for a sender without a record
get_mut_OrInsert(k, from) ==
    IF from # k /\ cl[k].peers[from] = None THEN Some(PeerRecord(k, from)) ELSE cl[k].peers[from]

\* `peers_map.get_mut(&from)` in the receiver task
get_mut(k, from) == cl[k].peers[from]

GroupRecv(k) ==
    /\ outq[k] # <<>>
    /\ outq' = [outq EXCEPT ![k] = Tail(@)]
    /\ LET f == Head(outq[k]) IN
       IF f.from = k \/ get_mut(k, f.from) = None
       THEN /\ ev' = [op |-> "dropped", k |-> k, members |-> <<>>, pt |-> 0, frames |-> <<f>>]
            /\ UNCHANGED <<cl, nextKey>>
       ELSE LET info == Unwrap(get_mut(k, f.from)) IN
            \E d \in Decrypt(info.ratchet, f.body.header, f.body.nonce_ok, f.body.ct, nextKey) :
               /\ cl' = [cl EXCEPT
                           ![k].peers = insert(@, f.from, [info EXCEPT !.ratchet = d.sess]),
                           ![k].handed = IF d.res.ok
                                         THEN Append(@, [from |-> f.from, pt |-> d.res.pt,
                                                         group_id |-> f.group_id])
                                         ELSE @]
               /\ nextKey' = IF d.sess.dh_self_public # info.ratchet.dh_self_public
                             THEN nextKey + 1 ELSE nextKey
               /\ ev' = [op |-> IF d.res.ok THEN "handed" ELSE "failed", k |-> k,
                         members |-> <<>>, pt |-> d.res.pt, frames |-> <<f>>]
    /\ sentLog' = sentLog
    /\ GroupRest

\* every client is connected and in room g1; with boot = "full" every pair
\* has exchanged keys, with boot = "partial" s3 has not yet, with boot =
\* "oneway" the others hold a record for s3 but s3 holds none (its peers'
\* KeyExchange frames did not reach it)
InitGroup ==
    /\ boot \in {"full", "partial", "oneway"}
    /\ cl = [k \in Members |->
               [peers  |-> [p \in Members |->
                              IF \/ p = k
                                 \/ (boot = "partial" /\ "s3" \in {k, p})
                                 \/ (boot = "oneway" /\ k = "s3")
                              THEN None ELSE Some(PeerRecord(k, p))],
                handed |-> <<>>]]
    /\ peers = [m \in Members |-> Some(SidRank(m))]
    /\ rooms = [g \in GIDs |-> Some(Members)]
    /\ outq = [m \in Members |-> <<>>]
    /\ conn = <<>>
    /\ ev = [op |-> "none", k |-> "", members |-> <<>>, pt |-> 0, frames |-> <<>>]
    /\ rs = [s \in Sides |-> 0]
    /\ wire = [s \in Sides |-> <<>>]
    /\ sentLog = [s \in Sides |-> <<>>]
    /\ rcvLog = [s \in Sides |-> <<>>]
    /\ nextKey = 50

NextGroup ==
    \/ \E k \in Members, l \in MemberLists : GroupSend(k, l)
    \/ \E k \in Members, t \in Members : DirectSend(k, t)
    \/ \E k \in Members : GroupRecv(k)

SpecGroup == InitGroup /\ [][NextGroup]_vars

\* the listed members k holds a peer record for
ListedWithRecord(k, member_ids) ==
    {m \in SeqSet(member_ids) : contains_key(cl[k].peers, m)}

\* the step has emitted one GroupEncrypted frame with the group-id for every
\* listed member with a record, made by one encrypt call on that member's
\* ratchet, and has changed no other ratchet
GroupSendEmits(k, member_ids) ==
    LET R == ListedWithRecord(k, member_ids) IN
    /\ Len(ev'.frames) = Cardinality(R)
    /\ \A i \in 1..Len(ev'.frames) :
          /\ ev'.frames[i].kind = "GroupEncrypted"
          /\ ev'.frames[i].group_id = "g1"
          /\ ev'.frames[i].from = k
    /\ \A m \in R :
          \E i \in 1..Len(ev'.frames), fresh \in nextKey..(nextKey + Cardinality(R)) :
             LET e == Encrypt(Unwrap(cl[k].peers[m]).ratchet, ev'.pt, fresh)
             IN  /\ ev'.frames[i].body.header = e.header
                 /\ ev'.frames[i].body.ct = e.ct
                 /\ Unwrap(cl'[k].peers[m]).ratchet = e.sess
    /\ \A m \in Members \ R : cl'[k].peers[m] = cl[k].peers[m]
    /\ \A j \in Members \ {k} : cl'[j] = cl[j]

C25_TypingForwarded ==
    [][\A c \in Conns, f \in RelayFrames :
          (f.kind \in {"Typing", "ReadReceipt"} /\ f.target # "" /\ RelayOn(c, f)) =>
              LET n(d) == IF peers[f.target] = Some(d) THEN 1 ELSE 0
              IN  SentExactly(f, n)]_vars

\* how often client m has handed message pt of sender k to its UI
TimesHanded(m, k, pt) ==
    Cardinality({i \in 1..Len(cl[m].handed) :
                    cl[m].handed[i].from = k /\ cl[m].handed[i].pt = pt})

\* ---------------------------------------------------------------------------
\* C27: in a room of three members that all hold pairwise ratchets with each
\* other, after one Group send to the whole room every member other than the
\* sender has delivered the plaintext exactly once, once it has handled the
\* frames fanned out to it (its own and those encrypted for other members).
\* ---------------------------------------------------------------------------
C27_GroupDeliveredOnce ==
    (/\ boot = "full"
     /\ Len(sentLog["alice"]) = 1
     /\ sentLog["alice"][1].op = "group"
     /\ SeqSet(sentLog["alice"][1].members) \cup {sentLog["alice"][1].k} = Members
     /\ \A m \in Members : outq[m] = <<>>)
    => \A m \in Members \ {sentLog["alice"][1].k} :
          TimesHanded(m, sentLog["alice"][1].k, 1) = 1

\* ---------------------------------------------------------------------------
\* C28: when the ratchets are created without set_remote_dh, as the client
\* creates them on KeyExchange, the ratcheted messages decrypt whichever peer
\* sends first (frames delivered once and in order): every frame a side
\* decrypts yields the plaintext its peer sent, also the initiator's first
\* message when the initiator has decrypted the responder's first message
\* before its own first send.
\* ---------------------------------------------------------------------------
C28_EitherSideFirst ==
    (boot = "none" /\ ev.junk = 0 /\ ~ev.reordered)
    => \A side \in Sides : \A i \in 1..Len(rcvLog[side]) :
          rcvLog[side][i] = [ok |-> TRUE, pt |-> sentLog[Other(side)][i]]

\* ---------------------------------------------------------------------------
\* The clients and the relay with their tasks scheduled fairly: a client that
\* is down connects again, the bootstrap and the receiver and sender tasks
\* make progress, the sender task of a failed connection ends (its next ping
\* cannot be written), and the relay frees the slot of a closed connection.
\* Transport losses and relay-side disconnects may or may not happen.
\* ---------------------------------------------------------------------------
SpecClientFair ==
    /\ SpecClient
    /\ \A k \in Clients :
          /\ WF_vars(\E c \in Conns : ClientOpen(k, c))
          /\ WF_vars(ClientBootConnect(k))
          /\ WF_vars(ClientBootKeyExchange(k))
          /\ WF_vars(ClientRecv(k))
          /\ WF_vars(ClientEgressKeReply(k))
          /\ WF_vars(StaleSenderEnds(k))
    /\ \A c \in Conns : WF_vars(Reap(c))

\* client k is connected: its tasks run on an open connection that the relay
\* has registered under k's session-id
Connected(k) ==
    /\ cl[k].pc = "run"
    /\ cl[k].receiver = "running"
    /\ conn[cl[k].conn].st = "open"
    /\ peers[k] = Some(cl[k].conn)

\* ---------------------------------------------------------------------------
\* C29: for two clients of one relay, in any interleaving of connects,
\* KeyExchange broadcasts, replies, drops and resumes: once both are
\* connected and remain connected, each eventually holds a peer record for
\* the other.
\* ---------------------------------------------------------------------------
C29_KeyExchangeCompletes ==
    <>[](\A k \in Clients : Connected(k))
        => <>(\A k \in Clients : \A p \in Clients \ {k} : contains_key(cl[k].peers, p))

KeyAccounted(side, n) ==
    LET s == rs[side] IN
    \/ [dh_public |-> Unwrap(s.dh_remote), msg_num |-> n] \in ev.used[side]
    \/ \E e \in s.skipped_keys : e.dh_public = Unwrap(s.dh_remote) /\ e.msg_num = n

AllKeysAccounted ==
    \A side \in Sides :
        IsSome(rs[side].dh_remote) =>
            \A n \in 0..(rs[side].recv_msg_num - 1) : KeyAccounted(side, n)

\* ---------------------------------------------------------------------------
\* C31 (as claimed): in every reachable session state, for every message
\* number n of the current receiving chain below the receive counter, the
\* message key for n has been consumed by a decrypt or is in the skipped-key
\* map under (remote DH public, n).
\* ---------------------------------------------------------------------------
C31_KeysConsumedOrSkipped == AllKeysAccounted

\* C31 (amended): the same, as long as no decrypt call has had to discard
\* skipped keys to keep the map within MAX_SKIP entries.
C31_KeysConsumedOrSkippedUnlessEvicted == ~ev.evicted => AllKeysAccounted

\* a session holds MAX_SKIP skipped keys of its current receiving chain, has
\* consumed a later key of that chain, and nothing was discarded
C31_Witness ==
    /\ ~ev.evicted
    /\ \E side \in Sides :
          /\ Cardinality(rs[side].skipped_keys) = MAX_SKIP
          /\ rs[side].recv_msg_num = MAX_SKIP + 1
          /\ [dh_public |-> Unwrap(rs[side].dh_remote), msg_num |-> MAX_SKIP] \in ev.used[side]

\* the ratchet of side is as before, but for its cached voice key
RatchetKept(side) == [rs'[side] EXCEPT !.voice_key = rs[side].voice_key] = rs[side]

\* ---------------------------------------------------------------------------
\* C32: sending or receiving an AudioFrame leaves the ratchet's root key,
\* chain keys, counters, previous chain length, DH keys and skipped-key map
\* unchanged; the only session field that may change is the cached voice key
\* (and the peer's session does not change at all).
\* ---------------------------------------------------------------------------
C32_AudioLeavesRatchet ==
    [][\A side \in Sides :
          ((\E data \in Payloads : AudioSend(side, data)) \/ AudioRecv(side))
              => (RatchetKept(side) /\ rs'[Other(side)] = rs[Other(side)])]_vars

\* an audio frame was sent and heard between sessions that have exchanged
\* ratcheted messages, and the hearer caches the voice key
C32_Witness ==
    \E side \in Sides :
        /\ ev.heard[side] = 1
        /\ IsSome(rs[side].voice_key)
        /\ rs[side].recv_msg_num > 0
        /\ rs[Other(side)].dh_self_public # FirstKey(Other(side))

\* ---------------------------------------------------------------------------
\* C33: when two clients with distinct session-ids have each created a
\* ratchet from the other's KeyExchange, exactly one of them, the one with
\* the lower session-id, is initiator; the sending chain key of each equals
\* the receiving chain key of the other, and the two chain keys of one
\* session are distinct.  (No message is encrypted in this specification, so
\* the chain keys are the initial ones.)
\* ---------------------------------------------------------------------------
C33_RolesConsistent ==
    \A k, p \in Clients :
        (k # p /\ contains_key(cl[k].peers, p) /\ contains_key(cl[p].peers, k)) =>
            LET mine   == Unwrap(cl[k].peers[p]).ratchet
                theirs == Unwrap(cl[p].peers[k]).ratchet
            IN  /\ mine.is_alice = SidLess(k, p)
                /\ mine.is_alice # theirs.is_alice
                /\ mine.chain_key_send = theirs.chain_key_recv
                /\ mine.chain_key_recv = theirs.chain_key_send
                /\ mine.chain_key_send # mine.chain_key_recv

\* both clients hold a ratchet for each other
C33_Witness ==
    /\ contains_key(cl["s1"].peers, "s2")
    /\ contains_key(cl["s2"].peers, "s1")
    /\ Unwrap(cl["s1"].peers["s2"]).ratchet.is_alice

\* ---------------------------------------------------------------------------
\* C34: an inbound Encrypted or GroupEncrypted frame whose sender has no peer
\* record is dropped: the peer map is unchanged, no ratchet is created (no
\* key pair is drawn), and nothing is handed to the application or reported.
\* ---------------------------------------------------------------------------
C34_UnknownSenderDropped ==
    [][\A k \in Members :
          (/\ GroupRecv(k)
           /\ Head(outq[k]).from # k
           /\ ~contains_key(cl[k].peers, Head(outq[k]).from))
              => (cl' = cl /\ nextKey' = nextKey /\ ev'.op = "dropped")]_vars

\* s3, which holds no record for the sender, has just dropped a targeted
\* frame after having dropped a group frame
C34_Witness ==
    /\ boot = "oneway"
    /\ ev.op = "dropped" /\ ev.k = "s3"
    /\ ev.frames[1].kind = "Encrypted"
    /\ ev.frames[1].from # "s3"
    /\ GroupSendsDone = 1
    /\ outq["s3"] = <<>>

\* ---------------------------------------------------------------------------
\* C35: on every connection attempt, a resume included, the first frame the
\* client writes is Connect with its own unchanged session-id and the second
\* is KeyExchange with its identity public key; every frame of the sender
\* task (key-exchange reply, application frame) is written after both.
\* ---------------------------------------------------------------------------
BootstrapFrames(k) == <<Frame("Connect", k, "", ""), KeyExchangeFrame(k)>>

C35_BootstrapFirst ==
    \A k \in Clients :
        /\ Len(cl[k].sent) <= 2
        /\ cl[k].sent = SubSeq(BootstrapFrames(k), 1, Len(cl[k].sent))
        /\ cl[k].pc = "run" => cl[k].sent = BootstrapFrames(k)

\* a resumed connection has written its two bootstrap frames, the relay has
\* the session-id registered on it, and the sender task has written the
\* GroupJoin of the client's group
C35_Witness ==
    \E k \in Clients :
        /\ cl[k].attempt = 1 /\ cl[k].pc = "run"
        /\ cl[k].sent = BootstrapFrames(k)
        /\ peers[k] = Some(cl[k].conn)
        /\ cl[k].groups # {} /\ cl[k].outgoing = <<>> /\ cl[k].lost = {}
        /\ \A g \in cl[k].groups : InRoom(k, g)

\* ---------------------------------------------------------------------------
\* C36 (as claimed): a client has at most one sender task alive; the tasks of
\* a new connection run only after the sender task of every failed
\* connection has stopped.
\* ---------------------------------------------------------------------------
C36_OneTaskPair ==
    \A k \in Clients : cl[k].pc = "run" => cl[k].stale = 0

RegisteredOpen(S) ==
    \E c \in Conns : peers[S] = Some(c) /\ conn[c].st = "open" /\ conn[c].session_id = Some(S)

C38_NoStaleRouting ==
    /\ \A S \in SIDs : contains_key(peers, S) => RegisteredOpen(S)
    /\ \A g \in GIDs, S \in SIDs : InRoom(S, g) => RegisteredOpen(S)

\* ---------------------------------------------------------------------------
\* C40 (as claimed): no frame a connection sends, whatever its fields hold,
\* makes the relay's connection task end by a panic.
\* ---------------------------------------------------------------------------
C40_NoFramePanics ==
    \A c \in Conns : conn[c].st # "panicked"

\* ===========================================================================
\* Encrypted history storage (storage/mod.rs).  The history file is a sequence
\* of bytes: each entry is a 4-byte little-endian length followed by that many
\* bytes, a 12-byte nonce and the ChaCha20-Poly1305 ciphertext of the
\* serialized message.  Bytes are symbolic: <<"b", v>> is a plain byte of
\* value v, <<"c", key, nonce, p>> the encryption of plaintext byte p,
\* <<"t", key, nonce, pt, 0>> a byte of the tag over pt, <<"x">> a byte that
\* was overwritten on disk.
\*   cl.file    the bytes of the file
\*   cl.log     what was appended, in order: the message (0 if none), whether
\*              the entry is still intact, its size in bytes
\*   cl.result  what the last load_messages returned, cl.loaded whether the
\*              file is unchanged since
\*   cl.truncated   the tail of the file was cut off
\* ===========================================================================
MaxEntries == 3      \* entries appended to one file
NumStored == 2       \* distinct messages saved
PrefixLen == 4
NonceLen == 12
TagLen == 16
StorageKey == 9

Byte(v) == <<"b", v>>
Overwritten == <<"x">>

to_le_bytes(n) ==
    <<Byte(n % 256), Byte((n \div 256) % 256),
      Byte((n \div 65536) % 256), Byte((n \div 16777216) % 256)>>

from_le_bytes(b) == b[1][2] + 256 * b[2][2] + 65536 * b[3][2] + 16777216 * b[4][2]

\* rmp_serde::to_vec / from_slice (with the bincode fallback): a message is
\* one byte, the byte 0 is no message
serialize(m) == <<m>>
deserialize(pt) == IF Len(pt) = 1 /\ pt[1] \in 1..NumStored THEN Some(pt[1]) ELSE None

\* encrypt_message: nonce_id stands for the random 12 bytes
encrypt_message(key, plaintext, nonce_id) ==
    LET nonce == Copies(Byte(nonce_id), NonceLen)
    IN  [nonce |-> nonce,
         ciphertext |-> [i \in 1..Len(plaintext) |-> <<"c", key, nonce, plaintext[i]>>]
                            \o Copies(<<"t", key, nonce, plaintext, 0>>, TagLen)]

\* decrypt_message: Some(plaintext), or None when the tag does not verify
decrypt_message(key, nonce, ciphertext) ==
    IF Len(ciphertext) < TagLen THEN None
    ELSE LET n == Len(ciphertext) - TagLen
             sealed(i) == /\ Len(ciphertext[i]) = 4
                          /\ ciphertext[i][1] = "c"
                          /\ ciphertext[i][2] = key
                          /\ ciphertext[i][3] = nonce
             pt == [i \in 1..n |-> ciphertext[i][4]]
         IN  IF /\ \A i \in 1..n : sealed(i)
                /\ \A j \in (n + 1)..Len(ciphertext) :
                      ciphertext[j] = <<"t", key, nonce, pt, 0>>
             THEN Some(pt) ELSE None

\* `file.read_exact(&mut data)?` (line 63)
ReadDataFails(messages) == [ok |-> FALSE, messages |-> <<>>]

\* the loop of load_messages (lines 53-81) with pos bytes of the file consumed
RECURSIVE LoadLoop(_, _, _, _)
LoadLoop(key, file, pos, messages) ==
    IF Len(file) - pos < PrefixLen
    THEN [ok |-> TRUE, messages |-> messages]
    ELSE LET len == from_le_bytes(SubSeq(file, pos + 1, pos + PrefixLen))
             start == pos + PrefixLen
             data == SubSeq(file, start + 1, start + len)
             d == decrypt_message(key, SubSeq(data, 1, NonceLen),
                                  SubSeq(data, NonceLen + 1, len))
         IN  IF Len(file) - start < len THEN ReadDataFails(messages)
             ELSE IF len < NonceLen THEN LoadLoop(key, file, start + len, messages)
             ELSE IF d = None THEN LoadLoop(key, file, start + len, messages)
             ELSE IF deserialize(Unwrap(d)) = None
                  THEN LoadLoop(key, file, start + len, messages)
             ELSE LoadLoop(key, file, start + len,
                           Append(messages, Unwrap(deserialize(Unwrap(d)))))

load_messages(key, file) == LoadLoop(key, file, 0, <<>>)

\* the bytes save_message appends for plaintext pt
SavedEntry(key, pt, nonce_id) ==
    LET e == encrypt_message(key, pt, nonce_id)
        data == e.nonce \o e.ciphertext
    IN  to_le_bytes(Len(data)) \o data

NoResult == [ok |-> FALSE, messages |-> <<>>]

StoreIdleRest ==
    /\ rs = [s \in Sides |-> 0]
    /\ wire = [s \in Sides |-> <<>>]
    /\ sentLog = [s \in Sides |-> <<>>]
    /\ rcvLog = [s \in Sides |-> <<>>]
    /\ nextKey = 0
    /\ boot = "idle"
    /\ peers = <<>> /\ rooms = <<>> /\ conn = <<>> /\ outq = <<>>

InitStore ==
    /\ StoreIdleRest
    /\ cl = [file |-> <<>>, log |-> <<>>, result |-> NoResult, loaded |-> FALSE,
             truncated |-> FALSE]
    /\ ev = [op |-> "none"]

StoreRest == UNCHANGED <<rs, wire, sentLog, rcvLog, nextKey, boot, peers, rooms, conn, outq>>

StoreAppend(bytes, msg, intact) ==
    cl' = [cl EXCEPT !.file = @ \o bytes,
                     !.log = Append(@, [msg |-> msg, intact |-> intact, size |-> Len(bytes)]),
                     !.result = NoResult, !.loaded = FALSE]

\* save_message (lines 22-41)
StoreSave(m) ==
    /\ ~cl.truncated
    /\ Len(cl.log) < MaxEntries
    /\ StoreAppend(SavedEntry(StorageKey, serialize(m), Len(cl.log) + 1), m, TRUE)
    /\ ev' = [op |-> "save"]
    /\ StoreRest

\* an entry too short to hold a nonce gets into the file
StoreShortEntry(n) ==
    /\ ~cl.truncated
    /\ Len(cl.log) < MaxEntries
    /\ StoreAppend(to_le_bytes(n) \o Copies(Byte(0), n), 0, FALSE)
    /\ ev' = [op |-> "short"]
    /\ StoreRest

\* an entry sealed under the key whose plaintext is no PlainMessage
StoreUndecodable ==
    /\ ~cl.truncated
    /\ Len(cl.log) < MaxEntries
    /\ StoreAppend(SavedEntry(StorageKey, <<0>>, Len(cl.log) + 1), 0, FALSE)
    /\ ev' = [op |-> "undecodable"]
    /\ StoreRest

\* bytes of the file before entry i
RECURSIVE EntryStart(_, _)
EntryStart(log, i) == IF i = 1 THEN 0 ELSE log[i - 1].size + EntryStart(log, i - 1)

\* a byte of entry i's nonce or ciphertext is overwritten on disk
StoreOverwrite(i, off) ==
    /\ ~cl.truncated
    /\ i \in 1..Len(cl.log)
    /\ cl.log[i].size > PrefixLen + NonceLen
    /\ off \in {1, NonceLen + 1, cl.log[i].size - PrefixLen}
    /\ cl' = [cl EXCEPT !.file[EntryStart(cl.log, i) + PrefixLen + off] = Overwritten,
                        !.log[i].intact = FALSE,
                        !.result = NoResult, !.loaded = FALSE]
    /\ ev' = [op |-> "overwrite"]
    /\ StoreRest

\* how many bytes of a final entry of `size` bytes may be missing: one, all of
\* its data, or all of its data and part of its length
TruncateCuts(size) ==
    {n \in {1, size - PrefixLen} \cup ((size - PrefixLen + 1)..(size - 1)) : n >= 1}

\* the file ends inside its final entry (an append cut short)
StoreTruncate(n) ==
    /\ ~cl.truncated
    /\ cl.log # <<>>
    /\ n \in TruncateCuts(cl.log[Len(cl.log)].size)
    /\ cl' = [cl EXCEPT !.file = SubSeq(@, 1, Len(@) - n),
                        !.log[Len(cl.log)].intact = FALSE,
                        !.truncated = TRUE,
                        !.result = NoResult, !.loaded = FALSE]
    /\ ev' = [op |-> "truncate"]
    /\ StoreRest

\* load_messages (lines 44-84)
StoreLoad ==
    /\ ~cl.loaded
    /\ cl' = [cl EXCEPT !.result = load_messages(StorageKey, cl.file), !.loaded = TRUE]
    /\ ev' = [op |-> "load"]
    /\ StoreRest

NextStore ==
    \/ \E m \in 1..NumStored : StoreSave(m)
    \/ \E n \in {0, NonceLen - 1} : StoreShortEntry(n)
    \/ StoreUndecodable
    \/ \E i \in 1..MaxEntries, off \in 1..(PrefixLen + NonceLen + TagLen + 1) : StoreOverwrite(i, off)
    \/ \E n \in 1..(PrefixLen + NonceLen + TagLen + 1) : StoreTruncate(n)
    \/ StoreLoad

SpecStore == InitStore /\ [][NextStore]_vars

\* the messages of the entries that are still intact, in append order
IntactMessages ==
    LET sel == SelectSeq(cl.log, LAMBDA e : e.intact)
    IN  [i \in 1..Len(sel) |-> sel[i].msg]

\* ---------------------------------------------------------------------------
\* C26: load_messages returns, in append order, every intact message and
\* skips every corrupt entry (shorter than a nonce, failed decryption,
\* undecodable plaintext, truncated final entry) without returning an error
\* and without discarding the intact entries.
\* ---------------------------------------------------------------------------
C26_LoadSkipsCorrupt ==
    cl.loaded => cl.result = [ok |-> TRUE, messages |-> IntactMessages]


\* ===========================================================================
\* The relay's reader-writer locks (src/relay/mod.rs): peers and rooms are
\* Arc<tokio::sync::RwLock<HashMap>>.  A tokio RwLock is fair: a request
\* that cannot be granted at once waits in a FIFO queue, and a later request
\* waits behind it.  Each connection task handles one frame at a time; its
\* own session-id is the only one it names.
\* ===========================================================================
NumTasks == 3        \* connection tasks
MaxFrames == 4       \* frames the relay receives in one run

Tasks == 1..NumTasks
LockFrames == {"Connect", "KeyExchange", "GroupJoin", "GroupLeave", "GroupEncrypted"}

FreeLock == [readers |-> {}, writer |-> {}, queue |-> <<>>]

Grantable(lock, mode) ==
    IF mode = "write" THEN lock.readers = {} /\ lock.writer = {} ELSE lock.writer = {}

Grant(lock, t, mode) ==
    IF mode = "write" THEN [lock EXCEPT !.writer = {t}] ELSE [lock EXCEPT !.readers = @ \cup {t}]

\* the waiters at the head of the queue get the lock as far as it can be granted
RECURSIVE WakeWaiters(_)
WakeWaiters(lock) ==
    IF lock.queue # <<>> /\ Grantable(lock, Head(lock.queue).mode)
    THEN WakeWaiters(Grant([lock EXCEPT !.queue = Tail(@)],
                           Head(lock.queue).task, Head(lock.queue).mode))
    ELSE lock

\* lock.read().await / lock.write().await up to the point where the task
\* holds the lock or is queued
Acquire(lock, t, mode) ==
    IF lock.queue = <<>> /\ Grantable(lock, mode)
    THEN Grant(lock, t, mode)
    ELSE [lock EXCEPT !.queue = Append(@, [task |-> t, mode |-> mode])]

\* drop of a guard
Release(lock, t) ==
    WakeWaiters([lock EXCEPT !.readers = @ \ {t}, !.writer = @ \ {t}])

Holds(lock, t) == t \in lock.readers \cup lock.writer
Waits(lock, t) == \E i \in 1..Len(lock.queue) : lock.queue[i].task = t

\* A plausible slip: the peers guard of the cleanup is bound to a name and so
\* lives to the end of the block
CleanupPeersGuard_Held(lock, t) == lock

\* `peers.write().await.remove(&sid);` (line 195): the guard is a temporary
\* and is dropped at the end of the statement
CleanupPeersGuard(lock, t) == Release(lock, t)

LocksIdleRest ==
    /\ RatchetIdle
    /\ boot = "idle" /\ nextKey = 0
    /\ outq = <<>> /\ cl = <<>>

LocksRest == UNCHANGED <<rs, wire, sentLog, rcvLog, nextKey, boot, outq, cl>>

\* RelayServer::new and three accepted connections
InitLocks ==
    /\ LocksIdleRest
    /\ peers = [map |-> {}, lock |-> FreeLock]
    /\ rooms = [map |-> {}, lock |-> FreeLock]     \* the members of the one room
    /\ conn = [t \in Tasks |-> [pc |-> "idle", kind |-> "none", session_id |-> FALSE]]
    /\ ev = 0                                      \* frames received so far

\* ws_receiver.next() yields a frame and the handler asks for its first lock
LkReceive(t, kind) ==
    /\ conn[t].pc = "idle"
    /\ ev < MaxFrames
    /\ ev' = ev + 1
    /\ conn' = [conn EXCEPT ![t].kind = kind,
                            ![t].pc = IF kind \in {"Connect", "KeyExchange"}
                                      THEN "peers" ELSE "rooms"]
    /\ CASE kind = "Connect" ->
              peers' = [peers EXCEPT !.lock = Acquire(@, t, "write")] /\ UNCHANGED rooms
         [] kind = "KeyExchange" ->
              peers' = [peers EXCEPT !.lock = Acquire(@, t, "read")] /\ UNCHANGED rooms
         [] kind = "GroupEncrypted" ->
              rooms' = [rooms EXCEPT !.lock = Acquire(@, t, "read")] /\ UNCHANGED peers
         [] OTHER ->
              rooms' = [rooms EXCEPT !.lock = Acquire(@, t, "write")] /\ UNCHANGED peers
    /\ LocksRest

\* Connect (lines 91-111) and the forwarding arms that read peers (112-144),
\* once the lock is held; `ends` is the `?` of the Ack send, which returns
\* from handle_connection
LkPeersBody(t, ends) ==
    /\ conn[t].pc = "peers"
    /\ Holds(peers.lock, t)
    /\ IF conn[t].kind = "Connect"
       THEN /\ peers' = [map |-> peers.map \cup {t}, lock |-> Release(peers.lock, t)]
            /\ conn' = [conn EXCEPT ![t].session_id = TRUE,
                                    ![t].pc = IF ends THEN "done" ELSE "idle"]
       ELSE /\ ~ends
            /\ peers' = [peers EXCEPT !.lock = Release(@, t)]
            /\ conn' = [conn EXCEPT ![t].pc = "idle"]
    /\ UNCHANGED rooms
    /\ UNCHANGED ev
    /\ LocksRest

\* GroupJoin (145-154), GroupLeave (155-170) and the first half of
\* GroupEncrypted (171-174), once the rooms lock is held
LkRoomsBody(t) ==
    /\ conn[t].pc = "rooms"
    /\ Holds(rooms.lock, t)
    /\ CASE conn[t].kind = "GroupJoin" ->
              /\ rooms' = [map |-> rooms.map \cup {t}, lock |-> Release(rooms.lock, t)]
              /\ conn' = [conn EXCEPT ![t].pc = "idle"]
              /\ UNCHANGED peers
         [] conn[t].kind = "GroupLeave" ->
              /\ rooms' = [map |-> rooms.map \ {t}, lock |-> Release(rooms.lock, t)]
              /\ conn' = [conn EXCEPT ![t].pc = "idle"]
              /\ UNCHANGED peers
         [] OTHER ->
              IF rooms.map # {}
              THEN \* peers.read().await with rooms_read held
                   /\ peers' = [peers EXCEPT !.lock = Acquire(@, t, "read")]
                   /\ conn' = [conn EXCEPT ![t].pc = "rooms+peers"]
                   /\ UNCHANGED rooms
              ELSE /\ rooms' = [rooms EXCEPT !.lock = Release(@, t)]
                   /\ conn' = [conn EXCEPT ![t].pc = "idle"]
                   /\ UNCHANGED peers
    /\ UNCHANGED ev
    /\ LocksRest

\* GroupEncrypted, the fan-out (175-183): both guards are dropped at the end
\* of the arm
LkFanOut(t) ==
    /\ conn[t].pc = "rooms+peers"
    /\ Holds(peers.lock, t)
    /\ peers' = [peers EXCEPT !.lock = Release(@, t)]
    /\ rooms' = [rooms EXCEPT !.lock = Release(@, t)]
    /\ conn' = [conn EXCEPT ![t].pc = "idle"]
    /\ UNCHANGED ev
    /\ LocksRest

\* the ingress loop ends (line 188); the cleanup asks for peers if the
\* connection registered a session-id (193-195)
LkClose(t) ==
    /\ conn[t].pc = "idle"
    /\ IF conn[t].session_id
       THEN /\ peers' = [peers EXCEPT !.lock = Acquire(@, t, "write")]
            /\ conn' = [conn EXCEPT ![t].pc = "cleanup_peers"]
       ELSE /\ conn' = [conn EXCEPT ![t].pc = "done"]
            /\ UNCHANGED peers
    /\ UNCHANGED rooms
    /\ UNCHANGED ev
    /\ LocksRest

\* cleanup, line 195, then rooms.write().await (line 198)
LkCleanupPeers(t) ==
    /\ conn[t].pc = "cleanup_peers"
    /\ Holds(peers.lock, t)
    /\ peers' = [map |-> peers.map \ {t}, lock |-> CleanupPeersGuard(peers.lock, t)]
    /\ rooms' = [rooms EXCEPT !.lock = Acquire(@, t, "write")]
    /\ conn' = [conn EXCEPT ![t].pc = "cleanup_rooms"]
    /\ UNCHANGED ev
    /\ LocksRest

\* cleanup, lines 199-211: every guard the block still holds is dropped at
\* its end
LkCleanupRooms(t) ==
    /\ conn[t].pc = "cleanup_rooms"
    /\ Holds(rooms.lock, t)
    /\ rooms' = [map |-> rooms.map \ {t}, lock |-> Release(rooms.lock, t)]
    /\ peers' = [peers EXCEPT !.lock = Release(@, t)]
    /\ conn' = [conn EXCEPT ![t].pc = "done"]
    /\ UNCHANGED ev
    /\ LocksRest

NextLocks ==
    \/ \E t \in Tasks, kind \in LockFrames : LkReceive(t, kind)
    \/ \E t \in Tasks, ends \in BOOLEAN : LkPeersBody(t, ends)
    \/ \E t \in Tasks : LkRoomsBody(t)
    \/ \E t \in Tasks : LkFanOut(t)
    \/ \E t \in Tasks : LkClose(t)
    \/ \E t \in Tasks : LkCleanupPeers(t)
    \/ \E t \in Tasks : LkCleanupRooms(t)

SpecLocks == InitLocks /\ [][NextLocks]_vars

\* a task that holds the lock it asked for goes on; frames and closes come
\* when the peer sends them
SpecLocksFair ==
    /\ SpecLocks
    /\ \A t \in Tasks :
          /\ WF_vars(\E ends \in BOOLEAN : LkPeersBody(t, ends))
          /\ WF_vars(LkRoomsBody(t))
          /\ WF_vars(LkFanOut(t))
          /\ WF_vars(LkCleanupPeers(t))
          /\ WF_vars(LkCleanupRooms(t))

\* ---------------------------------------------------------------------------
\* C39: no interleaving of the connection tasks deadlocks on the two locks:
\* a task never asks for rooms while it holds peers, and every frame handler
\* and every cleanup that has started finishes.
\* ---------------------------------------------------------------------------
InHandler(t) == conn[t].pc \notin {"idle", "done"}

RoomsBeforePeers ==
    \A t \in Tasks : Holds(peers.lock, t) => ~Waits(rooms.lock, t)

C39_NoLockDeadlock ==
    /\ []RoomsBeforePeers
    /\ \A t \in Tasks : InHandler(t) ~> ~InHandler(t)

\* a fan-out holds rooms for reading and waits for peers behind a cleanup
\* that holds peers for writing, while a third task waits for rooms
C39_Witness ==
    \E t, u, v \in Tasks :
        /\ conn[t].pc = "rooms+peers" /\ Waits(peers.lock, t)
        /\ conn[u].pc = "cleanup_peers" /\ Holds(peers.lock, u)
        /\ Waits(rooms.lock, v)

====
